---- MODULE Spec2Model ----
(***************************************************************************)
(* Model of the fake-driver-sim DriverSimulator (src/src/simulator.ts):    *)
(* the movement timer that advances the position along a decoded polyline  *)
(* or a waypoint route, the proximity scan and the stop completion         *)
(* workflow (patchStop -> service time -> submitPod), and the connection   *)
(* life cycle that starts and stops the timers.                            *)
(*                                                                         *)
(* Geometry: every point of a modelled route lies on one meridian, and a   *)
(* latitude is written in metres of arc along it.  On a meridian the       *)
(* haversine distance is R * |dLat|, i.e. the absolute difference of the   *)
(* two latitudes in these units, and linear interpolation in lat/lng is    *)
(* linear in distance.  The one route that leaves the meridian is the      *)
(* generated square of 'linear' mode: a longitude is written in metres of  *)
(* arc along the parallel, east of the meridian, and each side of the      *)
(* square runs along a meridian or a parallel, where the distance is       *)
(* |dLat| + |dLng|.  Numbers are exact rationals [n, d].                   *)
(***************************************************************************)
EXTENDS Integers, Sequences, FiniteSets, TLC

\* ------------------------------------------------------------------ bounds
\* number of stops in a modelled stop list
MaxStops == 2
\* number of connection_ack messages the server sends on one connection
MaxAcks == 2
\* a driver with a negative speed is followed until its segmentProgress is
\* below -MaxReverse
MaxReverse == 1
\* number of points of an encoded polyline
MaxPoints == 2
MaxStray == 3
MaxPath == 3

\* --------------------------------------------------------- program constants
\* default proximity threshold, metres (proximityThresholdMeters ?? 150)
DefaultThreshold == 150
\* period of the movement timer, milliseconds
moveIntervalMs == 1000
\* half the side of the generated square route: 0.005 degrees of arc, metres
offset == 556


\* ------------------------------------------------------------ exact numbers
Abs(x) == IF x < 0 THEN -x ELSE x

RECURSIVE GCD(_, _)
GCD(a, b) == IF b = 0 THEN a ELSE GCD(b, a % b)

\* the number n/d (d # 0) in lowest terms with a positive denominator
Rat(n, d) ==
  LET g == GCD(Abs(n), Abs(d))
      s == IF d < 0 THEN -1 ELSE 1
  IN  [n |-> (s * n) \div g, d |-> (s * d) \div g]

Zero == [n |-> 0, d |-> 1]
One == [n |-> 1, d |-> 1]
RInt(i) == [n |-> i, d |-> 1]
RAdd(x, y) == Rat(x.n * y.d + y.n * x.d, x.d * y.d)
RSub(x, y) == Rat(x.n * y.d - y.n * x.d, x.d * y.d)
RMul(x, y) == Rat(x.n * y.n, x.d * y.d)
\* x / y for y # 0
RDiv(x, y) == Rat(x.n * y.d, x.d * y.n)
RLt(x, y) == x.n * y.d < y.n * x.d
RGe(x, y) == ~RLt(x, y)
RGt(x, y) == RLt(y, x)
RMin(x, y) == IF RLt(y, x) THEN y ELSE x
RMax(x, y) == IF RLt(x, y) THEN y ELSE x
RAbs(x) == [n |-> Abs(x.n), d |-> x.d]

\* ----------------------------------------------------------------- geometry
\* great-circle distance of two points of the meridian, metres
haversineDistance(p1, p2) == RAbs(RSub(p2, p1))

\* routes.ts calculateDistance: the same formula on (lat, lng) arguments, for
\* two points of one meridian or of one parallel
legacyCalculateDistance(lat1, lng1, lat2, lng2) ==
  RAdd(RAbs(RSub(lat2, lat1)), RAbs(RSub(lng2, lng1)))

\* interpolatePosition that uses the fraction as given
interpolatePosition_Unclamped(from, to, fraction) ==
  RAdd(from, RMul(RSub(to, from), fraction))

\* polyline.ts interpolatePosition: the fraction is clamped to [0, 1]
interpolatePosition(from, to, fraction) ==
  LET t == RMax(Zero, RMin(One, fraction))
  IN  RAdd(from, RMul(RSub(to, from), t))

\* routes.ts interpolatePosition: the fraction is used as given
legacyInterpolatePosition(lat1, lng1, lat2, lng2, fraction) ==
  [lat |-> RAdd(lat1, RMul(RSub(lat2, lat1), fraction)),
   lng |-> RAdd(lng1, RMul(RSub(lng2, lng1), fraction))]

\* ------------------------------------------------------------ polyline codec
\* A string is the sequence of its character codes.  charCodeAt: <<code>>,
\* or <<>> for the NaN that an index past the end gives
charCodeAt(s, index) == IF index < Len(s) THEN <<s[index + 1]>> ELSE <<>>

\* Group that reads the NaN past the end of the string as five one bits
Group_NaNAllOnes(byte) == IF byte = <<>> THEN 31 ELSE (byte[1] - 63) % 32

\* (byte & 0x1f) for byte = charCode - 63; NaN & 0x1f is 0
Group(byte) == IF byte = <<>> THEN 0 ELSE (byte[1] - 63) % 32

\* the loop test byte >= 0x20; NaN >= 0x20 is false
Continues(byte) == byte # <<>> /\ byte[1] - 63 >= 32
\* a do-while loop that leaves the index on the character that ended the value
RECURSIVE ReadValue_StaysOnLast(_, _, _, _)
ReadValue_StaysOnLast(s, index, shift, result) ==
  LET byte == charCodeAt(s, index)
      result2 == result + Group(byte) * 2^shift
  IN  IF Continues(byte) THEN ReadValue_StaysOnLast(s, index + 1, shift + 5, result2)
      ELSE [result |-> result2, index |-> index]

\* a do-while loop of decodePolyline that starts at index: the groups are
\* or-ed into result, each 5 bits above the one before.  The modelled strings
\* have at most six groups per value, which fit 30 bits: the or is a sum and
\* nothing is cut at 32 bits
RECURSIVE ReadValue(_, _, _, _)
ReadValue(s, index, shift, result) ==
  LET byte == charCodeAt(s, index)
      result2 == result + Group(byte) * 2^shift
  IN  IF Continues(byte) THEN ReadValue(s, index + 1, shift + 5, result2)
      ELSE [result |-> result2, index |-> index + 1]

\* Signed that negates instead of inverting
Signed_Negates(result) ==
  IF result % 2 = 1 THEN -(result \div 2) ELSE result \div 2

\* result & 1 ? ~(result >> 1) : result >> 1
Signed(result) ==
  IF result % 2 = 1 THEN -(result \div 2) - 1 ELSE result \div 2

\* the while loop of decodePolyline from index on, with the accumulators lat
\* and lng
RECURSIVE DecodeFrom(_, _, _, _, _)
DecodeFrom(s, index, lat, lng, coords) ==
  IF index < Len(s)
  THEN LET a == ReadValue(s, index, 0, 0)
           lat2 == lat + Signed(a.result)
           b == ReadValue(s, a.index, 0, 0)
           lng2 == lng + Signed(b.result)
       IN  DecodeFrom(s, b.index, lat2, lng2,
                      Append(coords, [lat |-> Rat(lat2, 100000),
                                      lng |-> Rat(lng2, 100000)]))
  ELSE coords

\* the argument of a call made with null or undefined in place of a string: a
\* one-element sequence whose element is the code of no character
Missing == <<-1>>

\* decodePolyline without its guard
decodePolyline_NoGuard(s) == DecodeFrom(s, 0, 0, 0, <<>>)

\* polyline.ts decodePolyline; coordinates are degrees.  The guard
\* (!encoded || encoded.length === 0) returns the empty array for null,
\* undefined and the empty string
decodePolyline(s) ==
  IF s = Missing \/ Len(s) = 0 THEN <<>> ELSE DecodeFrom(s, 0, 0, 0, <<>>)

\* The standard encoder of the polyline format (the repository has none).
\* One value: the sign folded into the low bit, then 5-bit groups, low group
\* first, each but the last with the continuation bit 0x20, offset 63
RECURSIVE EncodeGroups(_)
EncodeGroups(v) ==
  IF v >= 32 THEN <<(32 + (v % 32)) + 63>> \o EncodeGroups(v \div 32)
  ELSE <<v + 63>>

EncodeValue(v) == EncodeGroups(IF v < 0 THEN -(2 * v) - 1 ELSE 2 * v)

\* a coordinate in units of 1e-5 degree: round(x * 1e5), exact for a
\* coordinate of five decimals (whose denominator divides 100000)
E5(x) == x.n * (100000 \div x.d)

RECURSIVE EncodeFrom(_, _, _, _)
EncodeFrom(pts, i, lat, lng) ==
  IF i > Len(pts) THEN <<>>
  ELSE EncodeValue(E5(pts[i].lat) - lat) \o EncodeValue(E5(pts[i].lng) - lng)
         \o EncodeFrom(pts, i + 1, E5(pts[i].lat), E5(pts[i].lng))

encodePolyline(pts) == EncodeFrom(pts, 1, 0, 0)

\* --------------------------------------------------------------- navigation
\* seconds of simulated travel per movement tick (moveIntervalMs / 1000)
deltaSeconds == moveIntervalMs \div 1000

\* point i (0-based, as in the source) of a sequence of points
At(points, i) == RInt(points[i + 1])

\* progressIncrement that adds nothing on a segment without length
progressIncrement_ZeroStalls(segmentDistance, distanceTraveled) ==
  IF RGt(segmentDistance, Zero) THEN RDiv(distanceTraveled, segmentDistance) ELSE Zero

\* segmentDistance > 0 ? distanceTraveled / segmentDistance : 1
progressIncrement(segmentDistance, distanceTraveled) ==
  IF RGt(segmentDistance, Zero) THEN RDiv(distanceTraveled, segmentDistance) ELSE One

\* the while loop of updatePositionPolyline: leave every segment whose
\* progress reached 1, converting what is left with the distance of the
\* segment the tick started on
RECURSIVE CrossSegments(_, _, _, _)
CrossSegments(points, idx, prog, segmentDistance) ==
  IF RGe(prog, One) /\ idx + 1 < Len(points)
  THEN LET i2 == idx + 1
           p2 == RSub(prog, One)
           p3 == IF i2 + 1 < Len(points)
                 THEN LET newSegmentDistance ==
                            haversineDistance(At(points, i2), At(points, i2 + 1))
                      IN  IF RGt(newSegmentDistance, Zero)
                          THEN RDiv(RMul(p2, segmentDistance), newSegmentDistance)
                          ELSE p2
                 ELSE p2
       IN  CrossSegments(points, i2, p3, segmentDistance)
  ELSE [idx |-> idx, prog |-> prog]

\* updatePositionPolyline that keeps what is left of the progress when it wraps
updatePositionPolyline_KeepsOvershoot(points, speedMps, nav, dt) ==
  IF Len(points) < 2 THEN [nav EXCEPT !.speed = 0]
  ELSE IF nav.idx + 1 >= Len(points) THEN [nav EXCEPT !.idx = 0, !.prog = Zero]
  ELSE
    LET segmentDistance ==
          haversineDistance(At(points, nav.idx), At(points, nav.idx + 1))
        distanceTraveled == RInt(speedMps * dt)
        c == CrossSegments(points, nav.idx,
               RAdd(nav.prog, progressIncrement(segmentDistance, distanceTraveled)),
               segmentDistance)
    IN  IF c.idx + 1 >= Len(points) THEN [nav EXCEPT !.idx = 0, !.prog = c.prog]
        ELSE [idx |-> c.idx, prog |-> c.prog,
              lat |-> interpolatePosition(At(points, c.idx), At(points, c.idx + 1),
                                          RMin(c.prog, One)),
              speed |-> speedMps]

\* updatePositionPolyline that stays at the last point instead of wrapping
updatePositionPolyline_StopsAtEnd(points, speedMps, nav, dt) ==
  IF Len(points) < 2 THEN [nav EXCEPT !.speed = 0]
  ELSE IF nav.idx + 1 >= Len(points) THEN [nav EXCEPT !.idx = 0, !.prog = Zero]
  ELSE
    LET segmentDistance ==
          haversineDistance(At(points, nav.idx), At(points, nav.idx + 1))
        distanceTraveled == RInt(speedMps * dt)
        c == CrossSegments(points, nav.idx,
               RAdd(nav.prog, progressIncrement(segmentDistance, distanceTraveled)),
               segmentDistance)
    IN  IF c.idx + 1 >= Len(points)
        THEN [idx |-> Len(points) - 2, prog |-> One,
              lat |-> At(points, Len(points) - 1), speed |-> speedMps]
        ELSE [idx |-> c.idx, prog |-> c.prog,
              lat |-> interpolatePosition(At(points, c.idx), At(points, c.idx + 1),
                                          RMin(c.prog, One)),
              speed |-> speedMps]

\* updatePositionPolyline: nav = [idx, prog, lat, speed] before the call,
\* the result is the same record after it
updatePositionPolyline(points, speedMps, nav, dt) ==
  IF Len(points) < 2 THEN [nav EXCEPT !.speed = 0]
  ELSE IF nav.idx + 1 >= Len(points) THEN [nav EXCEPT !.idx = 0, !.prog = Zero]
  ELSE
    LET segmentDistance ==
          haversineDistance(At(points, nav.idx), At(points, nav.idx + 1))
        distanceTraveled == RInt(speedMps * dt)
        c == CrossSegments(points, nav.idx,
               RAdd(nav.prog, progressIncrement(segmentDistance, distanceTraveled)),
               segmentDistance)
    IN  IF c.idx + 1 >= Len(points) THEN [nav EXCEPT !.idx = 0, !.prog = Zero]
        ELSE [idx |-> c.idx, prog |-> c.prog,
              lat |-> interpolatePosition(At(points, c.idx), At(points, c.idx + 1),
                                          RMin(c.prog, One)),
              speed |-> speedMps]

\* StandsStill without the test of isPaused
StandsStill_IgnoresPause(paused, route) == Len(route) < 2

\* StandsStill without the test of the length of the route
StandsStill_IgnoresLength(paused, route) == paused

\* the early return of updatePositionLegacy
StandsStill(paused, route) == paused \/ Len(route) < 2

\* NextIndex that stays on the last waypoint instead of wrapping
NextIndex_NoWrap(idx, n) == IF idx + 1 < n THEN idx + 1 ELSE idx

\* nextIndex of updatePositionLegacy: the waypoint after idx, cyclically
NextIndex(idx, n) == (idx + 1) % n

\* updatePositionLegacy: nav = [idx, prog, lat, lng, speed, paused] before
\* the call; the result adds timer = TRUE when the call arms a pause timeout
updatePositionLegacy(route, speedMps, nav, dt) ==
  IF StandsStill(nav.paused, route)
  THEN [nav EXCEPT !.speed = 0] @@ [timer |-> FALSE]
  ELSE
    LET currentWaypoint == route[nav.idx + 1]
        nextIndex == NextIndex(nav.idx, Len(route))
        nextWaypoint == route[nextIndex + 1]
        segmentDistance ==
          legacyCalculateDistance(RInt(currentWaypoint.lat), RInt(currentWaypoint.lng),
                                  RInt(nextWaypoint.lat), RInt(nextWaypoint.lng))
        distanceTraveled == RInt(speedMps * dt)
        prog1 == RAdd(nav.prog, progressIncrement(segmentDistance, distanceTraveled))
        reached == RGe(prog1, One)
        pause == reached /\ nextWaypoint.pauseMs > 0
        prog2 == IF reached THEN Zero ELSE prog1
        paused2 == pause
        pos == legacyInterpolatePosition(
                 RInt(currentWaypoint.lat), RInt(currentWaypoint.lng),
                 RInt(nextWaypoint.lat), RInt(nextWaypoint.lng), RMin(prog2, One))
    IN  [idx |-> IF reached THEN nextIndex ELSE nav.idx,
         prog |-> prog2,
         lat |-> pos.lat,
         lng |-> pos.lng,
         speed |-> IF paused2 THEN 0 ELSE speedMps,
         paused |-> paused2,
         timer |-> pause]

\* ------------------------------------------------------------ stop tracking
IsDepot(stop) == stop.type \in {"depot_start", "depot_end"}

\* Skipped without the test of the stop's status and of completedStopIds
Skipped_IgnoresCompleted(stop, completed) ==
  \/ stop.id = "" \/ stop.latitude = 0 \/ stop.longitude = 0
  \/ IsDepot(stop)

\* Skipped without the test of the stop's type
Skipped_IncludesDepots(stop, completed) ==
  \/ stop.id = "" \/ stop.latitude = 0 \/ stop.longitude = 0
  \/ stop.status = "completed" \/ stop.id \in completed

\* Skipped without the test of the stop's id and coordinates
Skipped_IgnoresFalsy(stop, completed) ==
  \/ IsDepot(stop)
  \/ stop.status = "completed" \/ stop.id \in completed

\* the three `continue` tests of the scan loop of checkStopProximity
Skipped(stop, completed) ==
  \/ stop.id = "" \/ stop.latitude = 0 \/ stop.longitude = 0
  \/ IsDepot(stop)
  \/ stop.status = "completed" \/ stop.id \in completed

threshold(cfg) ==
  IF cfg.proximityThresholdMeters = <<>> THEN DefaultThreshold
  ELSE cfg.proximityThresholdMeters[1]

\* the initial closestDistance; RLt(x, Infinity) holds for every number x
Infinity == [n |-> 1, d |-> 0]

\* Closer with the threshold compared by <= instead of <
Closer_Inclusive(distance, limit, closestDistance) ==
  RGe(RInt(limit), distance) /\ RLt(distance, closestDistance)

\* does a stop at this distance replace the closest stop found so far
Closer(distance, limit, closestDistance) ==
  RLt(distance, RInt(limit)) /\ RLt(distance, closestDistance)

\* the scan loop of checkStopProximity from stop i on; the result is
\* [stop |-> index of closestStop or 0, distance |-> closestDistance]
RECURSIVE ScanStops(_, _, _, _, _, _)
ScanStops(stopList, completed, driverPos, limit, i, best) ==
  IF i > Len(stopList) THEN best
  ELSE LET stop == stopList[i]
           distance == haversineDistance(driverPos, RInt(stop.latitude))
       IN  IF ~Skipped(stop, completed) /\ Closer(distance, limit, best.distance)
           THEN ScanStops(stopList, completed, driverPos, limit, i + 1,
                          [stop |-> i, distance |-> distance])
           ELSE ScanStops(stopList, completed, driverPos, limit, i + 1, best)

\* ScanBlocked without the test of isCompletingStop
ScanBlocked_NoLock(lock, cfg) == ~cfg.apiClient \/ ~cfg.routeId

\* the early returns of checkStopProximity
ScanBlocked(lock, cfg) == lock \/ ~cfg.apiClient \/ ~cfg.routeId

\* checkStopProximity up to the call of completeStop: the stop it selects, 0
\* when it returns without one
closestStop(lock, cfg, stopList, completed, driverPos) ==
  IF ScanBlocked(lock, cfg) THEN 0
  ELSE ScanStops(stopList, completed, driverPos, threshold(cfg), 1,
                 [stop |-> 0, distance |-> Infinity]).stop

\* outcomes of a collaborator call: resolves true, resolves false, rejects
Outcomes == {"ok", "fail", "throw"}

\* ------------------------------------------------------------ configurations
Stop(id, type, lat, lng, status) ==
  [id |-> id, type |-> type, latitude |-> lat, longitude |-> lng, status |-> status]

Waypoint(lat, lng, pauseMs) == [lat |-> lat, lng |-> lng, pauseMs |-> pauseMs]

\* routes.ts sfDeliveryRoute: its nine waypoints moved onto the meridian of
\* the first, latitudes in metres of arc rounded to 100 m; the last is the
\* first again
sfDeliveryRoute ==
  << Waypoint(3700, 0, 0), Waypoint(2000, 0, 5000), Waypoint(1800, 0, 8000),
     Waypoint(1000, 0, 5000), Waypoint(1100, 0, 8000), Waypoint(2200, 0, 0),
     Waypoint(2400, 0, 8000), Waypoint(3000, 0, 0), Waypoint(3700, 0, 0) >>

\* routes.ts generateSquareRoute: a square around the centre, the last
\* waypoint the first again
generateSquareRoute(centerLat, centerLng) ==
  << Waypoint(centerLat + offset, centerLng - offset, 0),
     Waypoint(centerLat + offset, centerLng + offset, 5000),
     Waypoint(centerLat - offset, centerLng + offset, 5000),
     Waypoint(centerLat - offset, centerLng - offset, 5000),
     Waypoint(centerLat + offset, centerLng - offset, 0) >>

\* stops the modelled stop lists are made of, in a cyclic order; the fourth
\* repeats the id of the third
StopPool ==
  << Stop("s2", "pickup", 1150, -122, "pending"),
     Stop("s1", "delivery", 1000, -122, "pending"),
     Stop("s3", "delivery", 1200, -122, "pending"),
     Stop("s3", "delivery", 1000, -122, "pending"),
     Stop("s4", "delivery", 1150, -122, "en_route"),
     Stop("s5", "depot_start", 1000, -122, "pending"),
     Stop("s7", "delivery", 1000, -122, "completed"),
     Stop("s6", "depot_end", 1200, -122, "pending") >>

Reverse(q) == [i \in 1..Len(q) |-> q[Len(q) + 1 - i]]

\* the m stops of the pool that follow stop i cyclically, stop i first
Window(pool, i, m) == [j \in 1..m |-> pool[((i + j - 2) % Len(pool)) + 1]]

\* the stop lists of at most k stops: runs of consecutive pool stops, in pool
\* order and in reverse order
StopLists(pool, k) ==
  LET runs == {Window(pool, i, m) :
                 i \in 1..Len(pool), m \in 0..(IF k < Len(pool) THEN k ELSE Len(pool))}
  IN  runs \cup {Reverse(q) : q \in runs}

BaseConfig ==
  [mode |-> "polyline", speedMps |-> 100, startLat |-> 1000, startLng |-> 0,
   routePolyline |-> <<1000, 1100, 1300>>, customRoute |-> <<>>,
   stops |-> <<>>, apiClient |-> TRUE, routeId |-> TRUE,
   proximityThresholdMeters |-> <<>>]

\* road-following simulators as multi-driver.ts builds them, with an API
\* client, over every stop list
PolylineConfigs ==
  {[BaseConfig EXCEPT !.stops = sl] : sl \in StopLists(StopPool, MaxStops)}

\* variations of one setting over the stop lists of the first two stops
VariedConfigs ==
  UNION {
    { [BaseConfig EXCEPT !.stops = sl, !.proximityThresholdMeters = <<100>>],
      [BaseConfig EXCEPT !.stops = sl, !.apiClient = FALSE],
      [BaseConfig EXCEPT !.stops = sl, !.routeId = FALSE],
      [BaseConfig EXCEPT !.stops = sl, !.speedMps = 0, !.startLat = 1100,
                         !.routePolyline = <<1100, 1300>>],
      [BaseConfig EXCEPT !.stops = sl, !.routePolyline = <<>>, !.startLat = 1100],
      [BaseConfig EXCEPT !.stops = sl, !.mode = "stationary", !.startLat = 1100,
                         !.routePolyline = <<>>],
      [BaseConfig EXCEPT !.stops = sl, !.mode = "delivery_route",
                         !.routePolyline = <<>>,
                         !.customRoute = << Waypoint(1000, 0, 0),
                                            Waypoint(1100, 0, 5000),
                                            Waypoint(1300, 0, 0) >>] }
    : sl \in StopLists(SubSeq(StopPool, 1, 2), MaxStops) }

Configs == PolylineConfigs \cup VariedConfigs

NoStops == [BaseConfig EXCEPT !.stops = <<>>]

\* a waypoint route along the meridian with a pause at its second waypoint
PausingRoute ==
  << Waypoint(1000, 0, 0), Waypoint(1100, 0, 5000), Waypoint(1300, 0, 0) >>

\* simulators without stops that differ in route and speed: decoded paths
\* of equal, unequal and zero-length segments, of two, one and no points,
\* waypoint routes with and without a pause, the built-in routes, and
\* speeds that are positive, zero and negative
PathConfigs ==
  { [NoStops EXCEPT !.routePolyline = <<1000, 1010, 1020, 1030>>, !.speedMps = 25],
    [NoStops EXCEPT !.routePolyline = <<1000, 1010, 1030, 1070>>, !.speedMps = 35],
    [NoStops EXCEPT !.routePolyline = <<1000, 1010, 1030, 1070>>, !.speedMps = 15],
    [NoStops EXCEPT !.routePolyline = <<1000, 1000, 1100>>, !.speedMps = 50],
    [NoStops EXCEPT !.routePolyline = <<1000, 1100, 1100, 1200>>, !.speedMps = 150],
    [NoStops EXCEPT !.routePolyline = <<1000, 1000, 1100>>, !.speedMps = -50],
    [NoStops EXCEPT !.routePolyline = <<1000, 1100>>, !.speedMps = 100],
    [NoStops EXCEPT !.routePolyline = <<1000, 1100>>, !.speedMps = 40],
    [NoStops EXCEPT !.routePolyline = <<1000, 1100, 1300>>, !.speedMps = 0],
    [NoStops EXCEPT !.routePolyline = <<1000, 1100, 1300>>, !.speedMps = -50],
    [NoStops EXCEPT !.routePolyline = <<1000>>, !.startLat = 1100],
    [NoStops EXCEPT !.routePolyline = <<>>, !.startLat = 1100] }

WaypointConfigs ==
  { [NoStops EXCEPT !.mode = m, !.routePolyline = <<>>, !.customRoute = r,
                    !.speedMps = s, !.startLat = 1100]
      : m \in {"delivery_route", "linear"},
        r \in {PausingRoute, <<Waypoint(1000, 0, 0)>>,
               <<Waypoint(1000, 0, 0), Waypoint(1000, 0, 0), Waypoint(1200, 0, 5000)>>},
        s \in {100, 150, 0, -50} }
  \cup
  { [NoStops EXCEPT !.mode = "linear", !.routePolyline = <<>>, !.speedMps = offset],
    [NoStops EXCEPT !.mode = "delivery_route", !.routePolyline = <<>>,
                    !.speedMps = 1000],
    [NoStops EXCEPT !.mode = "stationary", !.routePolyline = <<>>] }

\* the configurations of the navigation specification; the last five have
\* stops on the route, in the last three a stop without id, with longitude 0
\* or with latitude 0
NavConfigs ==
  PathConfigs \cup WaypointConfigs
  \cup { [BaseConfig EXCEPT !.stops = <<StopPool[2]>>],
         [BaseConfig EXCEPT !.mode = "delivery_route", !.routePolyline = <<>>,
                            !.customRoute = PausingRoute,
                            !.stops = <<StopPool[1]>>],
         [BaseConfig EXCEPT !.stops = <<Stop("", "delivery", 1000, -122, "pending"),
                                        StopPool[1]>>],
         [BaseConfig EXCEPT !.stops = <<Stop("z1", "pickup", 1000, 0, "en_route")>>],
         [BaseConfig EXCEPT !.startLat = 0, !.routePolyline = <<0, 100>>,
                            !.stops = <<Stop("z2", "delivery", 0, -122, "pending")>>] }

\* simulators with stops to complete: one and two stops on a decoded path, one
\* stop on a waypoint list with a pause
FairConfigs ==
  { [BaseConfig EXCEPT !.stops = <<StopPool[2]>>],
    [BaseConfig EXCEPT !.stops = <<StopPool[1], StopPool[2]>>],
    [BaseConfig EXCEPT !.mode = "delivery_route", !.routePolyline = <<>>,
                       !.customRoute = PausingRoute,
                       !.stops = <<StopPool[2]>>] }

\* ------------------------------------------------------------------- state
VARIABLES
  config,               \* SimulatorConfig, never assigned after construction
  currentLocation,      \* [lat, lng, speed]
  route,                \* Waypoint[] of the legacy modes
  polylinePoints,       \* decoded points of polyline mode
  currentWaypointIndex,
  currentPointIndex,
  segmentProgress,
  isPaused,
  pauseTimer,           \* a pause timeout of updatePositionLegacy is pending
  stops,                \* RouteStop[]; only status is ever assigned
  completedStopIds,
  isCompletingStop,
  workflows,            \* completeStop calls suspended at an await
  unhandledRejection,   \* a rejection left checkStopProximity
  socket,               \* readyState of the WebSocket created by connect
  ws,                   \* this.ws is not null
  connected,
  authenticated,
  authTimer,            \* the 15 s authentication timeout is pending
  pingInterval,         \* this.pingInterval is not null
  moveInterval,         \* this.moveInterval is not null
  livePing,             \* ping intervals that were set and not cleared
  liveMove,             \* movement intervals that were set and not cleared
  lastSent,             \* type of the last message written to the socket
  ev,                   \* observation: the last proximity check or workflow step
  aborted,              \* observation: the workflow that ended without completing
                        \* its stop since the last proximity check
  lastAdvance,          \* observation: the navigation state the last
                        \* updatePosition call started from
  points,               \* the points a polyline was encoded from
  encoded,              \* argument of a decodePolyline call: the encoding of
                        \* the points or the beginning of it
  coordinates,          \* <<result>> of that call once it returned, else <<>>
  geoCall,              \* a call of a geometry function: its name and arguments
  geoResult             \* <<result>> of that call once it returned, else <<>>

navVars == <<currentLocation, route, polylinePoints, currentWaypointIndex,
             currentPointIndex, segmentProgress, isPaused, pauseTimer>>
stopVars == <<stops, completedStopIds, isCompletingStop, workflows,
              unhandledRejection>>
connVars == <<socket, ws, connected, authenticated, authTimer>>
timerVars == <<pingInterval, moveInterval, livePing, liveMove>>
obsVars == <<ev, aborted, lastAdvance>>
geoVars == <<geoCall, geoResult>>
callVars == <<points, encoded, coordinates, geoVars>>
vars == <<config, navVars, stopVars, connVars, timerVars, lastSent, obsVars,
          callVars>>

NoEvent ==
  [op |-> "other", scanned |-> FALSE, selected |-> 0, call |-> "none", stop |-> 0,
   outcome |-> "none", lockBefore |-> FALSE]

NoAbort == [stop |-> 0, at |-> "none", outcome |-> "none"]

NoAdvance == [made |-> FALSE, idx |-> 0, prog |-> Zero, lat |-> Zero, paused |-> FALSE]

\* initializeRoute: the points, the route and the starting position.  A
\* polyline is given by the latitudes of its decoded points, on the meridian
\* of the start point; <<>> is a missing polyline or one that decodes to
\* nothing
initializeRoute(cfg) ==
  IF cfg.mode = "polyline"
  THEN IF cfg.routePolyline = <<>>
       THEN [points |-> <<cfg.startLat>>, route |-> <<>>,
             lat |-> cfg.startLat, lng |-> cfg.startLng]
       ELSE [points |-> cfg.routePolyline, route |-> <<>>,
             lat |-> cfg.routePolyline[1], lng |-> cfg.startLng]
  ELSE IF cfg.customRoute # <<>>
       THEN [points |-> <<>>, route |-> cfg.customRoute,
             lat |-> cfg.customRoute[1].lat, lng |-> cfg.customRoute[1].lng]
  ELSE IF cfg.mode = "linear"
       THEN [points |-> <<>>,
             route |-> generateSquareRoute(cfg.startLat, cfg.startLng),
             lat |-> cfg.startLat, lng |-> cfg.startLng]
  ELSE IF cfg.mode = "delivery_route"
       THEN [points |-> <<>>, route |-> sfDeliveryRoute,
             lat |-> sfDeliveryRoute[1].lat, lng |-> sfDeliveryRoute[1].lng]
       ELSE [points |-> <<>>, route |-> <<Waypoint(cfg.startLat, cfg.startLng, 0)>>,
             lat |-> cfg.startLat, lng |-> cfg.startLng]

\* the simulator as its constructor leaves it
InitWith(cfgs) ==
  /\ config \in cfgs
  /\ LET r == initializeRoute(config)
     IN  /\ currentLocation = [lat |-> RInt(r.lat), lng |-> RInt(r.lng), speed |-> 0]
         /\ route = r.route
         /\ polylinePoints = r.points
  /\ currentWaypointIndex = 0
  /\ currentPointIndex = 0
  /\ segmentProgress = Zero
  /\ isPaused = FALSE
  /\ pauseTimer = FALSE
  /\ stops = config.stops
  /\ completedStopIds = {}
  /\ isCompletingStop = FALSE
  /\ workflows = <<>>
  /\ unhandledRejection = FALSE
  /\ socket = "none"
  /\ ws = FALSE
  /\ connected = FALSE
  /\ authenticated = FALSE
  /\ authTimer = FALSE
  /\ pingInterval = FALSE
  /\ moveInterval = FALSE
  /\ livePing = 0
  /\ liveMove = 0
  /\ lastSent = "none"
  /\ ev = NoEvent
  /\ aborted = NoAbort
  /\ lastAdvance = NoAdvance

\* no decodePolyline call is under observation
NoDecoding == points = <<>> /\ encoded = <<>> /\ coordinates = <<>>

\* no call of a geometry function is under observation
NoGeoCall == geoCall = [fn |-> "none"] /\ geoResult = <<>>

Init == InitWith(Configs) /\ NoDecoding /\ NoGeoCall

\* ------------------------------------------------------- completion workflow
\* what completeStop does when it reaches its end or an await
Step(pc, lock, completed, arrivedOk) ==
  [pc |-> pc, lock |-> lock, completed |-> completed, arrivedOk |-> arrivedOk]

\* afterPatchStop without the `return` of the failure branch: the lock is
\* released and the workflow goes on
afterPatchStop_NoReturn(w, outcome) ==
  IF outcome = "ok" THEN Step("serviceTime", TRUE, FALSE, TRUE)
  ELSE IF outcome = "fail" THEN Step("serviceTime", FALSE, FALSE, FALSE)
  ELSE Step("done", FALSE, FALSE, FALSE)

\* afterPatchStop whose failure branch returns without releasing the lock
afterPatchStop_FailKeepsLock(w, outcome) ==
  IF outcome = "ok" THEN Step("serviceTime", TRUE, FALSE, TRUE)
  ELSE Step("done", outcome = "fail", FALSE, FALSE)

\* afterPatchStop without the try/catch: a rejection leaves completeStop
afterPatchStop_NoCatch(w, outcome) ==
  IF outcome = "ok" THEN Step("serviceTime", TRUE, FALSE, TRUE)
  ELSE IF outcome = "throw" THEN Step("rejected", TRUE, FALSE, FALSE)
  ELSE Step("done", FALSE, FALSE, FALSE)

\* completeStop after `await patchStop(...)`: a false result releases the lock
\* and returns; a rejection is caught and the lock released after the catch
afterPatchStop(w, outcome) ==
  IF outcome = "ok" THEN Step("serviceTime", TRUE, FALSE, TRUE)
  ELSE Step("done", FALSE, FALSE, FALSE)

\* completeStop after the service-time timeout: submitPod is called
afterServiceTime(w) == Step("submitPod", TRUE, FALSE, w.arrivedOk)

\* afterSubmitPod that releases the lock inside the try block only
afterSubmitPod_ThrowKeepsLock(w, outcome) ==
  Step("done", outcome = "throw", outcome = "ok", w.arrivedOk)

\* afterSubmitPod that marks the stop completed whatever submitPod returned
afterSubmitPod_AlwaysCompletes(w, outcome) ==
  Step("done", FALSE, outcome # "throw", w.arrivedOk)

\* completeStop after `await submitPod(...)`: the stop is marked completed on
\* a true result only; the lock is released on every result and after the catch
afterSubmitPod(w, outcome) ==
  Step("done", FALSE, outcome = "ok", w.arrivedOk)

\* a suspended completeStop call is [stop, stopId, pc, arrivedOk, retryAfter]:
\* the index and id of its stop, the await it is suspended at, the local
\* arrivedOk, and (observation) the await at which the workflow before it
\* ended when that one was for the same stop and no check came in between.
\* completeStop resumed at the await w.pc with the outcome of the awaited
\* call: the await it suspends at next ("done" when it returns, "rejected"
\* when an error leaves it), the value it leaves in isCompletingStop, and
\* whether it marks the stop completed
completeStopStep(w, outcome) ==
  CASE w.pc = "patchStop" -> afterPatchStop(w, outcome)
    [] w.pc = "serviceTime" -> afterServiceTime(w)
    [] w.pc = "submitPod" -> afterSubmitPod(w, outcome)

RemoveAt(q, k) == [i \in 1..(Len(q) - 1) |-> IF i < k THEN q[i] ELSE q[i + 1]]

\* checkStopProximity that sits out the check after a workflow ended without
\* completing its stop
CheckStopProximity_Backoff(driverPos) ==
  LET sel == closestStop(isCompletingStop, config, stops, completedStopIds, driverPos)
      starts == sel # 0 /\ config.apiClient /\ config.routeId /\ stops[sel].id # ""
                /\ aborted.stop = 0
  IN  /\ isCompletingStop' = (isCompletingStop \/ starts)
      /\ workflows' =
           IF starts
           THEN Append(workflows,
                  [stop |-> sel, stopId |-> stops[sel].id, pc |-> "patchStop",
                   arrivedOk |-> FALSE,
                   retryAfter |-> IF aborted.stop = sel THEN aborted.at ELSE "none"])
           ELSE workflows
      /\ ev' = [op |-> "check", scanned |-> ~ScanBlocked(isCompletingStop, config),
                selected |-> sel,
                call |-> IF starts THEN "patchStop" ELSE "none",
                stop |-> IF starts THEN sel ELSE 0,
                outcome |-> "none", lockBefore |-> isCompletingStop]
      /\ aborted' = NoAbort
      /\ UNCHANGED <<stops, completedStopIds, unhandledRejection>>

\* checkStopProximity called with the driver at driverPos, and the
\* synchronous start of completeStop up to its first await
CheckStopProximity(driverPos) ==
  LET sel == closestStop(isCompletingStop, config, stops, completedStopIds, driverPos)
      starts == sel # 0 /\ config.apiClient /\ config.routeId /\ stops[sel].id # ""
  IN  /\ isCompletingStop' = (isCompletingStop \/ starts)
      /\ workflows' =
           IF starts
           THEN Append(workflows,
                  [stop |-> sel, stopId |-> stops[sel].id, pc |-> "patchStop",
                   arrivedOk |-> FALSE,
                   retryAfter |-> IF aborted.stop = sel THEN aborted.at ELSE "none"])
           ELSE workflows
      /\ ev' = [op |-> "check", scanned |-> ~ScanBlocked(isCompletingStop, config),
                selected |-> sel,
                call |-> IF starts THEN "patchStop" ELSE "none",
                stop |-> IF starts THEN sel ELSE 0,
                outcome |-> "none", lockBefore |-> isCompletingStop]
      /\ aborted' = NoAbort
      /\ UNCHANGED <<stops, completedStopIds, unhandledRejection>>

\* workflow k resumes after its awaited call settled with outcome
Resume(k, outcome) ==
  LET w == workflows[k]
      r == completeStopStep(w, outcome)
  IN  /\ workflows' =
           IF r.pc \in {"done", "rejected"} THEN RemoveAt(workflows, k)
           ELSE [workflows EXCEPT ![k] = [w EXCEPT !.pc = r.pc,
                                                   !.arrivedOk = r.arrivedOk]]
      /\ isCompletingStop' = r.lock
      /\ unhandledRejection' = (unhandledRejection \/ r.pc = "rejected")
      /\ completedStopIds' =
           IF r.completed THEN completedStopIds \cup {w.stopId} ELSE completedStopIds
      /\ stops' =
           IF r.completed THEN [stops EXCEPT ![w.stop].status = "completed"] ELSE stops
      /\ ev' = [op |-> w.pc, scanned |-> FALSE, selected |-> 0,
                call |-> IF r.pc = "submitPod" THEN "submitPod" ELSE "none",
                stop |-> w.stop, outcome |-> outcome,
                lockBefore |-> isCompletingStop]
      /\ aborted' =
           IF r.pc \in {"done", "rejected"} /\ ~r.completed
           THEN [stop |-> w.stop, at |-> w.pc, outcome |-> outcome]
           ELSE IF r.completed THEN NoAbort ELSE aborted
      /\ UNCHANGED lastAdvance

\* the promise of patchStop settles
PatchStopSettles ==
  \E k \in 1..Len(workflows), outcome \in Outcomes :
    /\ workflows[k].pc = "patchStop"
    /\ Resume(k, outcome)
    /\ UNCHANGED <<config, callVars, navVars, connVars, timerVars, lastSent>>

\* a service-time wait that ends with the navigator paused
ServiceTimeElapses_PausesNavigator ==
  \E k \in 1..Len(workflows) :
    /\ workflows[k].pc = "serviceTime"
    /\ Resume(k, "none")
    /\ isPaused' = TRUE
    /\ UNCHANGED <<currentLocation, route, polylinePoints, currentWaypointIndex,
                   currentPointIndex, segmentProgress, pauseTimer>>
    /\ UNCHANGED <<config, callVars, connVars, timerVars, lastSent>>

\* the service-time timeout of completeStop fires; submitPod is called
ServiceTimeElapses ==
  \E k \in 1..Len(workflows) :
    /\ workflows[k].pc = "serviceTime"
    /\ Resume(k, "none")
    /\ UNCHANGED <<config, callVars, navVars, connVars, timerVars, lastSent>>

\* the promise of submitPod settles
SubmitPodSettles ==
  \E k \in 1..Len(workflows), outcome \in Outcomes :
    /\ workflows[k].pc = "submitPod"
    /\ Resume(k, outcome)
    /\ UNCHANGED <<config, callVars, navVars, connVars, timerVars, lastSent>>

\* ------------------------------------------------------------------ movement
\* updatePosition: dispatch on the mode; the result has the fields of both
\* navigators
updatePosition(dt) ==
  IF config.mode = "polyline"
  THEN LET r == updatePositionPolyline(polylinePoints, config.speedMps,
                  [idx |-> currentPointIndex, prog |-> segmentProgress,
                   lat |-> currentLocation.lat, speed |-> currentLocation.speed], dt)
       IN  [pointIndex |-> r.idx, waypointIndex |-> currentWaypointIndex,
            prog |-> r.prog, lat |-> r.lat, lng |-> currentLocation.lng,
            speed |-> r.speed,
            paused |-> isPaused, timer |-> FALSE]
  ELSE LET r == updatePositionLegacy(route, config.speedMps,
                  [idx |-> currentWaypointIndex, prog |-> segmentProgress,
                   lat |-> currentLocation.lat, lng |-> currentLocation.lng,
                   speed |-> currentLocation.speed, paused |-> isPaused], dt)
       IN  [pointIndex |-> currentPointIndex, waypointIndex |-> r.idx,
            prog |-> r.prog, lat |-> r.lat, lng |-> r.lng, speed |-> r.speed,
            paused |-> r.paused, timer |-> r.timer]

\* the callback of the movement interval: updatePosition, then
\* checkStopProximity at the new position
MoveTick ==
  /\ liveMove > 0
  /\ RGe(segmentProgress, RInt(-MaxReverse))
  /\ LET r == updatePosition(deltaSeconds)
     IN  /\ currentPointIndex' = r.pointIndex
         /\ currentWaypointIndex' = r.waypointIndex
         /\ segmentProgress' = r.prog
         /\ currentLocation' = [lat |-> r.lat, lng |-> r.lng, speed |-> r.speed]
         /\ isPaused' = r.paused
         /\ pauseTimer' = (pauseTimer \/ r.timer)
         /\ CheckStopProximity(r.lat)
  /\ lastAdvance' =
       [made |-> TRUE,
        idx |-> IF config.mode = "polyline" THEN currentPointIndex
                ELSE currentWaypointIndex,
        prog |-> segmentProgress, lat |-> currentLocation.lat, paused |-> isPaused]
  /\ UNCHANGED <<config, callVars, route, polylinePoints, connVars, timerVars, lastSent>>

\* the pause timeout armed by updatePositionLegacy fires
PauseTimerFires ==
  /\ pauseTimer
  /\ pauseTimer' = FALSE
  /\ isPaused' = FALSE
  /\ UNCHANGED obsVars
  /\ UNCHANGED <<config, callVars, currentLocation, route, polylinePoints,
                 currentWaypointIndex, currentPointIndex, segmentProgress,
                 stopVars, connVars, timerVars, lastSent>>

\* ---------------------------------------------------------------- connection
\* send: the message is written only to an open socket held in this.ws
Sent(type) == IF ws /\ socket = "OPEN" THEN type ELSE lastSent

\* connect(): the socket is created and the authentication timeout armed
Connect ==
  /\ socket = "none"
  /\ socket' = "CONNECTING"
  /\ ws' = TRUE
  /\ authTimer' = TRUE
  /\ UNCHANGED obsVars
  /\ UNCHANGED <<config, callVars, navVars, stopVars, connected, authenticated,
                 timerVars, lastSent>>

\* 'open' handler: sendAuth
WsOpen ==
  /\ socket = "CONNECTING"
  /\ socket' = "OPEN"
  /\ connected' = TRUE
  /\ lastSent' = IF ws THEN "auth" ELSE lastSent
  /\ UNCHANGED obsVars
  /\ UNCHANGED <<config, callVars, navVars, stopVars, ws, authenticated, authTimer,
                 timerVars>>

\* a connection_ack handled as soon as the socket exists, before it is open
ConnectionAck_BeforeOpen ==
  /\ socket \in {"CONNECTING", "OPEN"}
  /\ livePing < MaxAcks
  /\ authenticated' = TRUE
  /\ lastSent' = Sent("location_ping")
  /\ CheckStopProximity(currentLocation.lat)
  /\ pingInterval' = TRUE
  /\ livePing' = livePing + 1
  /\ moveInterval' = (moveInterval \/ config.mode # "stationary")
  /\ liveMove' = IF config.mode # "stationary" THEN liveMove + 1 ELSE liveMove
  /\ UNCHANGED lastAdvance
  /\ UNCHANGED <<config, callVars, navVars, socket, ws, connected, authTimer>>

\* 'message' handler for connection_ack: startSimulation sends a ping, checks
\* proximity at the current position and sets both intervals (the movement
\* interval in every mode but 'stationary')
ConnectionAck ==
  /\ socket = "OPEN"
  /\ livePing < MaxAcks
  /\ authenticated' = TRUE
  /\ lastSent' = Sent("location_ping")
  /\ CheckStopProximity(currentLocation.lat)
  /\ pingInterval' = TRUE
  /\ livePing' = livePing + 1
  /\ moveInterval' = (moveInterval \/ config.mode # "stationary")
  /\ liveMove' = IF config.mode # "stationary" THEN liveMove + 1 ELSE liveMove
  /\ UNCHANGED lastAdvance
  /\ UNCHANGED <<config, callVars, navVars, socket, ws, connected, authTimer>>

\* the callback of the ping interval: sendLocationPing
PingTick ==
  /\ livePing > 0
  /\ lastSent' = Sent("location_ping")
  /\ UNCHANGED obsVars
  /\ UNCHANGED <<config, callVars, navVars, stopVars, connVars, timerVars>>

\* stopSimulation: the intervals whose handles are stored are cleared
stopSimulation ==
  /\ livePing' = IF pingInterval THEN livePing - 1 ELSE livePing
  /\ liveMove' = IF moveInterval THEN liveMove - 1 ELSE liveMove
  /\ pingInterval' = FALSE
  /\ moveInterval' = FALSE

\* 'close' handler
WsClose ==
  /\ socket \in {"CONNECTING", "OPEN", "CLOSING"}
  /\ socket' = "CLOSED"
  /\ connected' = FALSE
  /\ authenticated' = FALSE
  /\ stopSimulation
  /\ UNCHANGED obsVars
  /\ UNCHANGED <<config, callVars, navVars, stopVars, ws, authTimer, lastSent>>

\* disconnect(): stopSimulation, then the socket is closed and dropped
disconnect ==
  /\ stopSimulation
  /\ socket' = IF ws /\ socket \in {"CONNECTING", "OPEN"} THEN "CLOSING" ELSE socket
  /\ ws' = FALSE

\* disconnect() called by the owner of the simulator (the shutdown handlers)
\* while it holds a socket; without one the call changes nothing
Disconnect ==
  /\ ws
  /\ disconnect
  /\ UNCHANGED obsVars
  /\ UNCHANGED <<config, callVars, navVars, stopVars, connected, authenticated, authTimer,
                 lastSent>>

\* the 15 s authentication timeout fires
AuthTimeout ==
  /\ authTimer
  /\ authTimer' = FALSE
  /\ IF ~authenticated
     THEN disconnect
     ELSE UNCHANGED <<timerVars, socket, ws>>
  /\ UNCHANGED obsVars
  /\ UNCHANGED <<config, callVars, navVars, stopVars, connected, authenticated, lastSent>>

Next ==
  \/ Connect
  \/ WsOpen
  \/ ConnectionAck
  \/ PingTick
  \/ MoveTick
  \/ PauseTimerFires
  \/ PatchStopSettles
  \/ ServiceTimeElapses
  \/ SubmitPodSettles
  \/ WsClose
  \/ Disconnect
  \/ AuthTimeout

Spec == Init /\ [][Next]_vars

\* The same simulator when every promise of a collaborator settles and the
\* service-time timeout fires: an awaited call that returns or throws, and a
\* timeout that was set, resume completeStop on a later turn of the event loop
FairInit == InitWith(FairConfigs) /\ NoDecoding /\ NoGeoCall

FairSpec ==
  /\ FairInit
  /\ [][Next]_vars
  /\ WF_vars(PatchStopSettles)
  /\ WF_vars(ServiceTimeElapses)
  /\ WF_vars(SubmitPodSettles)

\* ---------------------------------------------------------- decoding calls
\* the coordinate e5 / 1e5 degrees
Degrees(e5) == Rat(e5, 100000)

Coordinate(latE5, lngE5) == [lat |-> Degrees(latE5), lng |-> Degrees(lngE5)]

\* points of five decimals: the origin, values around the one-group limit of
\* 15 and -16, the example of the format's documentation, and the corners of
\* the coordinate range
CodecPoints ==
  { Coordinate(0, 0), Coordinate(15, -16), Coordinate(16, -17),
    Coordinate(-1, 1), Coordinate(511, -512),
    Coordinate(3850000, -12020000), Coordinate(4070000, -12095000),
    Coordinate(4325200, -12645300),
    Coordinate(9000000, 18000000), Coordinate(-9000000, -18000000) }

\* the sequences of at most MaxPoints of these points
PointSeqs == UNION {[1..k -> CodecPoints] : k \in 0..MaxPoints}

\* the beginnings of a string, the whole string included
Prefixes(s) == {SubSeq(s, 1, k) : k \in 0..Len(s)}

\* strings that no encoder wrote, of at most MaxStray characters: ' ' lies
\* below the offset 63, '?' is a group of 0 that ends a value, '_' and '~' are
\* the groups 0 and 31 with the continuation bit
StrayChars == {32, 63, 95, 126}

StrayStrings == UNION {[1..k -> StrayChars] : k \in 1..MaxStray}

\* a decodePolyline call is about to be made with the encoding of a sequence
\* of points or with a beginning of it, with a stray string, or without a
\* string
DecodeInit ==
  /\ InitWith({BaseConfig})
  /\ points \in PointSeqs
  /\ encoded \in Prefixes(encodePolyline(points))
                   \cup (IF points = <<>> THEN StrayStrings \cup {Missing} ELSE {})
  /\ coordinates = <<>>
  /\ NoGeoCall

\* the call returns
DecodeCall ==
  /\ coordinates' = <<decodePolyline(encoded)>>
  /\ UNCHANGED <<points, encoded, geoVars>>
  /\ UNCHANGED <<config, navVars, stopVars, connVars, timerVars, lastSent, obsVars>>

DecodeNext == DecodeCall

DecodeSpec == DecodeInit /\ [][DecodeNext]_vars

\* ----------------------------------------------------------- geometry calls
\* The functions of polyline.ts on points with both coordinates: points of a
\* neighbourhood small enough to be a plane, the degree of latitude and of
\* longitude being the unit of both axes.

\* the square of the great-circle distance of two such points; the callers
\* below only compare distances, and squares compare alike
haversineDistanceSquared(p1, p2) ==
  RAdd(RMul(RSub(p2.lat, p1.lat), RSub(p2.lat, p1.lat)),
       RMul(RSub(p2.lng, p1.lng), RSub(p2.lng, p1.lng)))

\* polyline.ts interpolatePosition on both coordinates
interpolateCoordinates(from, to, fraction) ==
  [lat |-> interpolatePosition(from.lat, to.lat, fraction),
   lng |-> interpolatePosition(from.lng, to.lng, fraction)]

\* distance is the squared distance
projectPointOntoSegment(point, segmentStart, segmentEnd) ==
  LET dx == RSub(segmentEnd.lng, segmentStart.lng)
      dy == RSub(segmentEnd.lat, segmentStart.lat)
      t == RDiv(RAdd(RMul(RSub(point.lng, segmentStart.lng), dx),
                     RMul(RSub(point.lat, segmentStart.lat), dy)),
                RAdd(RMul(dx, dx), RMul(dy, dy)))
      clampedT == RMax(Zero, RMin(One, t))
      projectedPoint == interpolateCoordinates(segmentStart, segmentEnd, clampedT)
  IN  IF dx = Zero /\ dy = Zero
      THEN [fraction |-> Zero,
            distance |-> haversineDistanceSquared(point, segmentStart)]
      ELSE [fraction |-> clampedT,
            distance |-> haversineDistanceSquared(point, projectedPoint)]

\* Nearer that lets a later segment at the same distance win
Nearer_Inclusive(distance, minDistance) == ~RLt(minDistance, distance)

\* distance < minDistance
Nearer(distance, minDistance) == RLt(distance, minDistance)

\* the for loop of findClosestPointOnPolyline from segment i (0-based) on
RECURSIVE ScanSegments(_, _, _, _)
ScanSegments(point, polyline, i, closest) ==
  IF i < Len(polyline) - 1
  THEN LET p == projectPointOntoSegment(point, polyline[i + 1], polyline[i + 2])
       IN  ScanSegments(point, polyline, i + 1,
             IF Nearer(p.distance, closest.distance)
             THEN [segmentIndex |-> i, fraction |-> p.fraction,
                   distance |-> p.distance]
             ELSE closest)
  ELSE closest

\* <<>> is null
findClosestPointOnPolyline(point, polyline) ==
  IF Len(polyline) = 0 THEN <<>>
  ELSE IF Len(polyline) = 1
  THEN <<[segmentIndex |-> 0, fraction |-> Zero,
          distance |-> haversineDistanceSquared(point, polyline[1])]>>
  ELSE <<ScanSegments(point, polyline, 0,
           [segmentIndex |-> 0, fraction |-> Zero, distance |-> Infinity])>>

\* points of a 3 x 3 grid
GridPoints == {[lat |-> RInt(y), lng |-> RInt(x)] : y \in 0..2, x \in 0..2}

\* fractions below, at the ends of, inside and above [0, 1]
Fractions == {Rat(-1, 2), Zero, Rat(1, 4), One, Rat(3, 2)}

\* the corners and the centre of the grid
PathPoints ==
  {p \in GridPoints : (p.lat = One /\ p.lng = One) \/ (p.lat # One /\ p.lng # One)}

\* the paths of at most MaxPath of these points
Paths == UNION {[1..k -> PathPoints] : k \in 0..MaxPath}

InterpolateCalls ==
  {[fn |-> f, from |-> a, to |-> b, fraction |-> x] :
     f \in {"polyline.interpolatePosition", "routes.interpolatePosition"},
     a \in GridPoints, b \in GridPoints, x \in Fractions}

ClosestPointCalls ==
  {[fn |-> "findClosestPointOnPolyline", point |-> q, polyline |-> path] :
     q \in GridPoints, path \in Paths}

\* a call of a geometry function is about to be made
GeoInit ==
  /\ InitWith({BaseConfig})
  /\ NoDecoding
  /\ geoCall \in InterpolateCalls \cup ClosestPointCalls
  /\ geoResult = <<>>

Returns(result) ==
  /\ geoResult = <<>>
  /\ geoResult' = <<result>>
  /\ UNCHANGED <<geoCall, points, encoded, coordinates>>
  /\ UNCHANGED <<config, navVars, stopVars, connVars, timerVars, lastSent, obsVars>>

InterpolateCall ==
  /\ geoCall.fn = "polyline.interpolatePosition"
  /\ Returns(interpolateCoordinates(geoCall.from, geoCall.to, geoCall.fraction))

LegacyInterpolateCall ==
  /\ geoCall.fn = "routes.interpolatePosition"
  /\ Returns(legacyInterpolatePosition(geoCall.from.lat, geoCall.from.lng,
                                       geoCall.to.lat, geoCall.to.lng,
                                       geoCall.fraction))

FindClosestCall ==
  /\ geoCall.fn = "findClosestPointOnPolyline"
  /\ Returns(findClosestPointOnPolyline(geoCall.point, geoCall.polyline))

GeoNext == InterpolateCall \/ LegacyInterpolateCall \/ FindClosestCall

GeoSpec == GeoInit /\ [][GeoNext]_vars

\* the same simulator over the configurations that vary route and speed
NavInit == InitWith(NavConfigs) /\ NoDecoding /\ NoGeoCall

NavSpec == NavInit /\ [][Next]_vars

\* the guard of MoveTick: a movement interval is set
TickEnabled == liveMove > 0 /\ RGe(segmentProgress, RInt(-MaxReverse))

\* the updatePosition call of a tick would change the navigation state or
\* the position, or would be the first call
TickMoves ==
  LET r == updatePosition(deltaSeconds)
  IN  \/ r.pointIndex # currentPointIndex
      \/ r.waypointIndex # currentWaypointIndex
      \/ r.prog # segmentProgress
      \/ r.lat # currentLocation.lat \/ r.lng # currentLocation.lng
      \/ r.speed # currentLocation.speed
      \/ r.paused # isPaused
      \/ ~lastAdvance.made

\* The same when a pause timeout that was set fires and the callback of a
\* movement interval that stays set keeps being called (setInterval): weak
\* fairness of PauseTimerFires, and of MoveTick where the tick moves
\* something, with the enabling condition written out
NavFairSpec ==
  /\ NavInit
  /\ [][Next]_vars
  /\ WF_vars(PauseTimerFires)
  /\ ([]<>(~(TickEnabled /\ TickMoves)) \/ []<><<MoveTick>>_vars)

\* =================================================================== claims
\* --------------------------------------------------- vocabulary of the claims
StopIndexes == 1..Len(stops)

\* the proximity threshold in force: the configured one, 150 m without one
Limit ==
  IF config.proximityThresholdMeters = <<>> THEN 150
  ELSE config.proximityThresholdMeters[1]

\* distance of stop i from the point pos
DistFrom(pos, i) == RAbs(RSub(RInt(stops[i].latitude), pos))

InRangeFrom(pos, i) == RLt(DistFrom(pos, i), RInt(Limit))

\* stop i is one the scan considers
Eligible(i) == ~Skipped(stops[i], completedStopIds)

\* stop i is no farther from pos than stop j, list order deciding ties
Before(pos, i, j) ==
  \/ RLt(DistFrom(pos, i), DistFrom(pos, j))
  \/ (DistFrom(pos, i) = DistFrom(pos, j) /\ i <= j)

\* the eligible stops within the threshold of the current position
Candidates == {i \in StopIndexes : Eligible(i) /\ InRangeFrom(currentLocation.lat, i)}

\* the nearest of them, the first in list order among equidistant ones; 0
\* when there is none
Nearest ==
  IF Candidates = {} THEN 0
  ELSE CHOOSE i \in Candidates :
         \A j \in Candidates : Before(currentLocation.lat, i, j)

Configured == config.apiClient /\ config.routeId

\* disconnect() has been called on a simulator that had connected
StopSignal == socket # "none" /\ ~ws

\* the step is the settling of an awaited collaborator call or timer
SettleStep == ev' # ev /\ ev'.op # "check"

\* ------------------------------------------------------------------------ C1
\* C1: at most one completion workflow is in flight, and a checkStopProximity
\* call made while the lock is set returns without scanning the stops and
\* without calling patchStop or submitPod.
C1_OneWorkflowInFlight ==
  /\ Len(workflows) <= 1
  /\ (ev.op = "check" /\ ev.lockBefore) =>
       (~ev.scanned /\ ev.selected = 0 /\ ev.call = "none")

\* a check was made during the service-time wait with two eligible stops
\* within the threshold
C1_Witness ==
  /\ ev.op = "check" /\ ev.lockBefore
  /\ Len(workflows) = 1 /\ workflows[1].pc = "serviceTime"
  /\ Cardinality(Candidates) >= 2

\* ------------------------------------------------------------------------ C2
\* C2: the lock is set when the mark-arrived call is issued and is cleared on
\* every exit of the workflow, so isCompletingStop holds exactly while a
\* workflow is running.
C2_LockHeldExactlyWhileRunning ==
  /\ isCompletingStop <=> (workflows # <<>>)
  /\ \A k \in 1..Len(workflows) : isCompletingStop
  /\ (ev.call = "patchStop") => isCompletingStop
  /\ (ev.op = "submitPod" \/ (ev.op = "patchStop" /\ ev.outcome # "ok")) =>
       ~isCompletingStop

\* a workflow has just ended by an exception of submitPod
C2_Witness ==
  /\ ev.op = "submitPod" /\ ev.outcome = "throw"
  /\ workflows = <<>> /\ ~isCompletingStop

\* ------------------------------------------------------------------------ C3
\* C3: a stop becomes completed, and its id enters completedStopIds, only in
\* the step in which submitPod returns success to a workflow for that stop
\* whose patchStop call had returned success before.
BothSucceeded(i) ==
  /\ ev'.op = "submitPod" /\ ev'.outcome = "ok" /\ ev'.stop = i
  /\ \E k \in 1..Len(workflows) :
       /\ workflows[k].stop = i
       /\ workflows[k].pc = "submitPod"
       /\ workflows[k].arrivedOk

C3_CompletedOnlyAfterBothSucceed ==
  [][ /\ \A i \in StopIndexes :
           (stops[i].status # "completed" /\ stops'[i].status = "completed")
             => BothSucceeded(i)
      /\ \A id \in completedStopIds' \ completedStopIds :
           \E i \in StopIndexes : stops[i].id = id /\ BothSucceeded(i) ]_vars

\* a stop that was not completed at construction has just been completed
C3_Witness ==
  /\ ev.op = "submitPod" /\ ev.outcome = "ok"
  /\ stops[ev.stop].status = "completed"
  /\ config.stops[ev.stop].status # "completed"
  /\ stops[ev.stop].id \in completedStopIds

\* ------------------------------------------------------------------------ C4
\* the step in which patchStop reports failure: no service-time wait, no
\* submitPod call, the stop as it was, the lock released
MarkArrivedFailureAborts ==
  (SettleStep /\ ev'.op = "patchStop" /\ ev'.outcome = "fail") =>
    /\ workflows' = <<>>
    /\ ~isCompletingStop'
    /\ ev'.call = "none"
    /\ stops' = stops /\ completedStopIds' = completedStopIds

\* the step is the first checkStopProximity call after a mark-arrived
\* failure, made with the failed stop within the threshold
RetryDue ==
  /\ aborted.at = "patchStop" /\ aborted.outcome = "fail"
  /\ ev'.op = "check"
  /\ InRangeFrom(currentLocation'.lat, aborted.stop)

\* C4 as claimed: after a mark-arrived failure the workflow ends at once with
\* the stop pending and the lock released, and the very next
\* checkStopProximity call made with the stop in range starts a new workflow
\* for that stop.
C4_Original ==
  [][ /\ MarkArrivedFailureAborts
      /\ RetryDue => (ev'.call = "patchStop" /\ ev'.stop = aborted.stop) ]_vars

\* C4 as amended: ... the very next checkStopProximity call made with the
\* stop in range starts a new workflow, for that stop unless another eligible
\* stop is then nearer (or as near and earlier in the list), in which case it
\* is for that other stop.
C4_RetryStartsWorkflow ==
  [][ /\ MarkArrivedFailureAborts
      /\ RetryDue =>
           /\ ev'.call = "patchStop"
           /\ Len(workflows') = 1
           /\ workflows'[1].stop = ev'.stop
           /\ workflows'[1].pc = "patchStop"
           /\ Before(currentLocation'.lat, ev'.stop, aborted.stop)
           /\ \A j \in StopIndexes :
                (Eligible(j) /\ InRangeFrom(currentLocation'.lat, j))
                  => Before(currentLocation'.lat, ev'.stop, j) ]_vars

\* a workflow for a stop is in flight that the check right after a failed
\* mark-arrived of the same stop started
C4_Witness ==
  \E k \in 1..Len(workflows) :
    /\ workflows[k].retryAfter = "patchStop"
    /\ workflows[k].pc = "patchStop"
    /\ ev.op = "check" /\ ev.stop = workflows[k].stop

\* ------------------------------------------------------------------------ C5
\* C5: when submitPod reports failure the lock is released and the stop is
\* not completed; every submitPod call, also one of a re-attempt after a
\* failed proof, belongs to a workflow whose patchStop call for the same stop
\* returned success.
C5_ProofFailureAndOrder ==
  /\ (ev.op = "submitPod" /\ ev.outcome = "fail") =>
       /\ ~isCompletingStop /\ workflows = <<>>
       /\ stops[ev.stop].status = config.stops[ev.stop].status
       /\ stops[ev.stop].status # "completed"
       /\ stops[ev.stop].id \notin completedStopIds
  /\ \A k \in 1..Len(workflows) :
       workflows[k].pc = "submitPod" => workflows[k].arrivedOk
  /\ (ev.call = "submitPod") =>
       \E k \in 1..Len(workflows) :
         /\ workflows[k].stop = ev.stop
         /\ workflows[k].pc = "submitPod"
         /\ workflows[k].arrivedOk

\* submitPod has been called in a re-attempt that follows a failed proof of
\* the same stop
C5_Witness ==
  \E k \in 1..Len(workflows) :
    /\ workflows[k].retryAfter = "submitPod"
    /\ workflows[k].pc = "submitPod"
    /\ ev.call = "submitPod"

\* ------------------------------------------------------------------------ C6
\* C6: when patchStop or submitPod throws, no error leaves
\* checkStopProximity, the workflow is over, the stop is as it was, the lock
\* is released and the timers that drive the ticks are untouched.
C6_ThrowIsContained ==
  [][ /\ ~unhandledRejection'
      /\ (SettleStep /\ ev'.outcome = "throw") =>
           /\ workflows' = <<>>
           /\ ~isCompletingStop'
           /\ ev'.call = "none"
           /\ stops' = stops /\ completedStopIds' = completedStopIds
           /\ timerVars' = timerVars ]_vars

\* patchStop has just thrown while the movement timer is running
C6_Witness ==
  /\ ev.op = "patchStop" /\ ev.outcome = "throw"
  /\ aborted.stop = ev.stop /\ aborted.outcome = "throw"
  /\ ~isCompletingStop /\ liveMove > 0

\* ------------------------------------------------------------------------ C7
\* C7: a completed stop stays completed, no later check selects it and no
\* later patchStop or submitPod call is issued for it.
C7_CompletedIsFinal ==
  [][ /\ completedStopIds \subseteq completedStopIds'
      /\ \A i \in StopIndexes :
           stops[i].status = "completed" =>
             /\ stops'[i].status = "completed"
             /\ (ev' # ev) => (ev'.selected # i /\ ev'.stop # i)
             /\ \A k \in 1..Len(workflows') : workflows'[k].stop # i ]_vars

\* a check has scanned the stops with a stop in range that a workflow had
\* completed
C7_Witness ==
  /\ ev.op = "check" /\ ev.scanned
  /\ \E i \in StopIndexes :
       /\ stops[i].status = "completed"
       /\ config.stops[i].status # "completed"
       /\ InRangeFrom(currentLocation.lat, i)

\* ------------------------------------------------------------------------ C8
\* what a check made with the lock clear selects: the nearest eligible stop
\* strictly within the threshold, the first in list order among equidistant
\* ones, for which it starts a workflow; nothing when there is none
SelectsNearest ==
  /\ ev.selected = Nearest
  /\ (Nearest # 0) => (ev.call = "patchStop" /\ ev.stop = Nearest /\ isCompletingStop)
  /\ (Nearest = 0) => (ev.call = "none" /\ ~isCompletingStop /\ workflows = <<>>)

C10_NothingAfterDisconnect ==
  [][ StopSignal =>
        /\ ~(ev' # ev /\ ev'.call = "submitPod")
        /\ stops' = stops
        /\ currentWaypointIndex' = currentWaypointIndex
        /\ currentPointIndex' = currentPointIndex
        /\ segmentProgress' = segmentProgress
        /\ isPaused' = isPaused ]_vars

\* ------------------------------------------ vocabulary of the navigation claims
PolylineMode == config.mode = "polyline"

\* metres covered in one movement tick at the configured speed
Travel == RInt(config.speedMps * deltaSeconds)

\* the path as latitudes: the decoded points or the waypoints of the route
Path ==
  IF PolylineMode THEN polylinePoints ELSE [i \in 1..Len(route) |-> route[i].lat]

\* the index of the segment being traversed
CurrentIndex == IF PolylineMode THEN currentPointIndex ELSE currentWaypointIndex

\* the point of a decoded path at fraction prog of segment idx
PointAt(idx, prog) ==
  RAdd(At(polylinePoints, idx),
       RMul(prog, RSub(At(polylinePoints, idx + 1), At(polylinePoints, idx))))

\* the last updatePosition call started on a decoded path of two or more
\* points, at the point its navigation state stood for, with a positive speed
AdvancedOnPath ==
  /\ lastAdvance.made /\ PolylineMode /\ Len(polylinePoints) >= 2
  /\ config.speedMps > 0
  /\ lastAdvance.idx + 1 < Len(polylinePoints)
  /\ lastAdvance.lat = PointAt(lastAdvance.idx, lastAdvance.prog)

\* every segment of the decoded path has a positive length
NoEmptySegment ==
  \A i \in 1..(Len(polylinePoints) - 1) : polylinePoints[i] # polylinePoints[i + 1]

\* ----------------------------------------------------------------------- C11
\* C11: on a decoded path, an updatePosition call that does not reach the end
\* of the path moves the position by speedMps * dt along the path, whatever
\* the segment lengths and however many segment boundaries it crosses.  (The
\* modelled paths run north along the meridian, so the distance along the
\* path between two of its points is the difference of their latitudes;
\* the formula is about paths whose segments all have a positive length.)
C11_ConstantSpeedAcrossBoundaries ==
  (/\ AdvancedOnPath /\ NoEmptySegment
   /\ RLt(RAdd(lastAdvance.lat, Travel), At(polylinePoints, Len(polylinePoints) - 1)))
    => RSub(currentLocation.lat, lastAdvance.lat) = Travel

\* ----------------------------------------------------------------------- C12
\* C12: on a two-point path [A, B] with speedMps = distance(A, B), one
\* updatePosition(1.0) call from the initial state leaves the position at B.
C12_LandsOnEndPoint ==
  (/\ AdvancedOnPath /\ Len(polylinePoints) = 2
   /\ lastAdvance.idx = 0 /\ lastAdvance.prog = Zero
   /\ Travel = haversineDistance(At(polylinePoints, 0), At(polylinePoints, 1)))
    => currentLocation.lat = At(polylinePoints, 1)

\* ----------------------------------------------------------------------- C13
\* C13: the navigation state is always well-formed: segmentProgress is in
\* [0, 1], and the index names an existing segment (currentPointIndex + 1 <
\* number of points on a decoded path of two or more points, 0 <=
\* currentWaypointIndex < number of waypoints on a waypoint route).
C13_NavigationStateWellFormed ==
  /\ RGe(segmentProgress, Zero) /\ RGe(One, segmentProgress)
  /\ (PolylineMode /\ Len(polylinePoints) >= 2) =>
       (currentPointIndex >= 0 /\ currentPointIndex + 1 < Len(polylinePoints))
  /\ ~PolylineMode =>
       (currentWaypointIndex >= 0 /\ currentWaypointIndex < Len(route))

\* the reported position and the navigation state
Navigation ==
  <<currentLocation.lat, currentLocation.lng, CurrentIndex, segmentProgress>>

\* ----------------------------------------------------------------------- C14
\* C14: on a waypoint route, reaching a waypoint with pauseMs > 0 pauses the
\* navigator; while it is paused the speed is 0 and no step, in particular no
\* updatePosition call, changes position, index or segmentProgress; only the
\* expiry of the pause timer ends the pause, and the next updatePosition call
\* after it moves again.
C14_PauseHoldsUntilTimerExpires ==
  [][ /\ isPaused => (pauseTimer /\ currentLocation.speed = 0)
      /\ isPaused => (Navigation' = Navigation /\ currentLocation'.speed = 0)
      /\ (~PolylineMode /\ currentWaypointIndex' # currentWaypointIndex
            /\ route[currentWaypointIndex' + 1].pauseMs > 0) => isPaused'
      /\ (~isPaused /\ isPaused') =>
           /\ CurrentIndex' # CurrentIndex
           /\ route[CurrentIndex' + 1].pauseMs > 0
           /\ pauseTimer'
      /\ (isPaused /\ ~isPaused') => (pauseTimer /\ ~pauseTimer')
      /\ (lastAdvance.paused /\ ~lastAdvance'.paused /\ config.speedMps > 0) =>
           Navigation' # Navigation ]_vars

\* an updatePosition call was made during the pause at the second waypoint,
\* reached by travelling, and the pause timer has not expired
C14_Witness ==
  /\ isPaused /\ pauseTimer
  /\ lastAdvance.made /\ lastAdvance.paused
  /\ config.speedMps > 0
  /\ currentWaypointIndex = 1 /\ route[2].pauseMs > 0

\* ----------------------------------------------------------------------- C15
\* the path has fewer than two points
ShortPath == Len(Path) < 2

\* C15: with a path of fewer than two points (also the single start point
\* that replaces a missing polyline or one that decodes to nothing) every
\* updatePosition call returns normally, reports speed 0 and changes neither
\* the position nor the navigation state.
C15_ShortPathStandsStill ==
  ShortPath =>
    /\ currentLocation.lat = RInt(initializeRoute(config).lat)
    /\ currentLocation.lng = RInt(initializeRoute(config).lng)
    /\ currentLocation.speed = 0
    /\ currentPointIndex = 0 /\ currentWaypointIndex = 0
    /\ segmentProgress = Zero
    /\ ~isPaused /\ ~pauseTimer
    /\ ~unhandledRejection

\* updatePosition has been called on the start point that replaced a missing
\* polyline
C15_Witness ==
  /\ lastAdvance.made
  /\ PolylineMode /\ config.routePolyline = <<>>
  /\ polylinePoints = <<config.startLat>>
  /\ config.speedMps > 0

\* ----------------------------------------------------------------------- C16
\* C16: with speedMps <= 0, in either mode, after any number of
\* updatePosition calls segmentProgress is still 0 and the position is the
\* one the constructor set.
C16_NoMotionWithoutPositiveSpeed ==
  config.speedMps <= 0 =>
    /\ segmentProgress = Zero
    /\ currentLocation.lat = RInt(initializeRoute(config).lat)
    /\ currentLocation.lng = RInt(initializeRoute(config).lng)

\* ----------------------------------------------------------------------- C17
\* the first point of the route the constructor built
FirstPoint ==
  IF PolylineMode THEN [lat |-> At(polylinePoints, 0), lng |-> RInt(config.startLng)]
  ELSE [lat |-> RInt(route[1].lat), lng |-> RInt(route[1].lng)]

\* nothing has run since the constructor returned
Constructed == socket = "none" /\ ~lastAdvance.made

\* C17: after construction the reported position is the first point of the
\* route (decoded polyline, custom waypoints, generated square, built-in
\* delivery route) and the navigation state is index 0, segmentProgress 0,
\* not paused.
C17_StartsAtFirstPoint ==
  Constructed =>
    /\ Len(Path) >= 1
    /\ currentLocation.lat = FirstPoint.lat
    /\ currentLocation.lng = FirstPoint.lng
    /\ currentPointIndex = 0 /\ currentWaypointIndex = 0
    /\ segmentProgress = Zero
    /\ ~isPaused

\* ----------------------------------------------------------------------- C18
\* the waypoint after waypoint i (0-based) when the list is a cycle
Successor(i) == (i + 1) % Len(route)

\* length of the segment that leaves waypoint i
SegmentLength(i) ==
  RAdd(RAbs(RInt(route[Successor(i) + 1].lat - route[i + 1].lat)),
       RAbs(RInt(route[Successor(i) + 1].lng - route[i + 1].lng)))

\* segmentProgress after one more tick on the segment that leaves waypoint i
ProgressAfterTick(i) ==
  IF SegmentLength(i) = Zero THEN RAdd(segmentProgress, One)
  ELSE RAdd(segmentProgress, RDiv(Travel, SegmentLength(i)))

\* C18: a waypoint list is a cycle.  With a positive speed every
\* updatePosition call made while not paused advances along the segment from
\* the current waypoint to its cyclic successor, the segment from the last
\* waypoint to the first included; when the segment is completed the index
\* becomes the successor (0 after n-1) with segmentProgress 0, and the index
\* never leaves 0..n-1, so navigation goes on from the first waypoint.
C18_WaypointListIsCyclic ==
  [][ (~PolylineMode /\ Len(route) >= 2 /\ config.speedMps > 0) =>
        /\ currentWaypointIndex \in 0..(Len(route) - 1)
        /\ currentWaypointIndex' \in {currentWaypointIndex,
                                      Successor(currentWaypointIndex)}
        /\ (MoveTick /\ ~isPaused) =>
             IF RGe(ProgressAfterTick(currentWaypointIndex), One)
             THEN /\ currentWaypointIndex' = Successor(currentWaypointIndex)
                  /\ segmentProgress' = Zero
             ELSE /\ currentWaypointIndex' = currentWaypointIndex
                  /\ segmentProgress' = ProgressAfterTick(currentWaypointIndex)
                  /\ RGt(segmentProgress', segmentProgress)
                  /\ currentLocation'.lat =
                       RAdd(RInt(route[currentWaypointIndex + 1].lat),
                            RMul(segmentProgress',
                                 RInt(route[Successor(currentWaypointIndex) + 1].lat
                                      - route[currentWaypointIndex + 1].lat))) ]_vars

\* the segment from the last waypoint back to the first, 300 m long, has
\* just been completed, after a tick that ended on it
C18_Witness ==
  /\ ~PolylineMode /\ route = PausingRoute /\ config.speedMps > 0
  /\ lastAdvance.made
  /\ lastAdvance.idx = Len(route) - 1 /\ RGt(lastAdvance.prog, Zero)
  /\ currentWaypointIndex = 0 /\ segmentProgress = Zero

\* ----------------------------------------------------- vocabulary of the codec
\* decodePolyline has returned
Decoded == coordinates # <<>>

\* the character ends a value: its group has no continuation bit
EndsValue(c) == c - 63 < 32

\* the string is a whole number of (latitude, longitude) pairs of complete
\* values
WellFormed(s) ==
  \/ Len(s) = 0
  \/ /\ EndsValue(s[Len(s)])
     /\ Cardinality({i \in 1..Len(s) : EndsValue(s[i])}) % 2 = 0

\* the string ends in the middle of a value, or after a latitude that no
\* longitude follows
Malformed(s) == s # Missing /\ ~WellFormed(s)

\* s followed by as many characters '?' (a group of 0 that ends a value) as
\* make it well-formed
RECURSIVE Completed(_)
Completed(s) == IF WellFormed(s) THEN s ELSE Completed(Append(s, 63))

\* ----------------------------------------------------------------------- C19
\* C19: decoding the standard encoding of a sequence of points of five
\* decimals gives back the sequence of points; the result is a function of
\* the string alone.
C19_DecodeInvertsEncode ==
  (Decoded /\ encoded = encodePolyline(points)) =>
    /\ coordinates[1] = points
    /\ coordinates[1] = decodePolyline(encodePolyline(points))

\* the encoding of two points has been decoded, the second one south-west of
\* the first and more than one group away
C19_Witness ==
  /\ Decoded /\ encoded = encodePolyline(points)
  /\ Len(points) = 2 /\ coordinates[1] = points
  /\ E5(points[2].lat) - E5(points[1].lat) < -16
  /\ E5(points[2].lng) - E5(points[1].lng) < -16

\* ----------------------------------------------------------------------- C20
\* C20 as claimed: decodePolyline returns the empty sequence for malformed
\* input, such as a string that ends in the middle of a value or after a
\* latitude without a longitude.
C20_Original == (Decoded /\ Malformed(encoded)) => coordinates[1] = <<>>

\* C20 as amended: decodePolyline returns the empty sequence for the empty
\* (or missing) string only.  For a string that ends in the middle of a value or after a
\* latitude without a longitude it returns, without raising, what it returns
\* for the string completed by '?' characters (the missing groups read as 0):
\* a non-empty sequence, one point for every pair of values begun.
C20_MalformedDecodesAsCompleted ==
  Decoded =>
    /\ (coordinates[1] = <<>>) <=> (encoded \in {<<>>, Missing})
    /\ Malformed(encoded) =>
         /\ coordinates[1] = decodePolyline(Completed(encoded))
         /\ 2 * Len(coordinates[1]) =
              Cardinality({i \in 1..Len(Completed(encoded)) :
                             EndsValue(Completed(encoded)[i])})

\* a string that ends in the middle of the longitude of its second point has
\* been decoded
C20_Witness ==
  /\ Decoded /\ Malformed(encoded)
  /\ ~EndsValue(encoded[Len(encoded)])
  /\ Len(coordinates[1]) = 2 /\ Len(points) = 2

\* ----------------------------------------------------------------------- C21
\* the outer iteration of decodePolyline that starts at index i leaves the
\* index here: after the latitude and the longitude it read
AfterIteration(s, i) == ReadValue(s, ReadValue(s, i, 0, 0).index, 0, 0).index

\* C21: decodePolyline terminates without raising for every string, a string
\* cut short included: every read of a value consumes at least one index,
\* also the read that starts at or runs past the end of the string, which
\* ends the value with nothing added to it; so every outer iteration moves
\* the index forward by at least two and at most past the end, and the call
\* returns a sequence of at most one point for every two characters begun.
C21_DecodeTerminates ==
  encoded # Missing =>
    /\ \A i \in 0..Len(encoded) :
         LET v == ReadValue(encoded, i, 0, 0)
         IN  /\ v.index > i /\ v.index <= Len(encoded) + 1
             /\ (v.index = Len(encoded) + 1 /\ i < Len(encoded)
                   /\ ~EndsValue(encoded[Len(encoded)]))
                  => v = ReadValue(Append(encoded, 63), i, 0, 0)
    /\ ReadValue(encoded, Len(encoded), 0, 0)
         = [result |-> 0, index |-> Len(encoded) + 1]
    /\ \A i \in 0..(Len(encoded) - 1) :
         /\ AfterIteration(encoded, i) >= i + 2
         /\ AfterIteration(encoded, i) <= Len(encoded) + 2
    /\ Decoded =>
         /\ coordinates[1] \in Seq([lat : [n : Int, d : Int], lng : [n : Int, d : Int]])
         /\ 2 * Len(coordinates[1]) <= Len(encoded) + 1

\* a stray string whose every character asks for another one has been
\* decoded: both reads of its only iteration ran past the end
C21_Witness ==
  /\ Decoded /\ encoded \in StrayStrings /\ Len(encoded) = MaxStray
  /\ \A i \in 1..Len(encoded) : ~EndsValue(encoded[i])
  /\ AfterIteration(encoded, 0) = Len(encoded) + 2
  /\ Len(coordinates[1]) = 1

\* ----------------------------------------------------------------------- C22
\* C22: decodePolyline returns the empty sequence when it is called with the
\* empty string, and when it is called with null or undefined.
C22_NothingDecodesToNothing ==
  (Decoded /\ (encoded = <<>> \/ encoded = Missing)) => coordinates[1] = <<>>

\* a call without a string has returned
C22_Witness == Decoded /\ encoded = Missing /\ coordinates[1] = <<>>

\* ------------------------------------------------- vocabulary of the geometry
\* a call of fn has returned
Returned(fn) == geoCall.fn = fn /\ geoResult # <<>>

\* p lies on the segment from a to b
OnSegment(p, a, b) ==
  /\ RGe(p.lat, RMin(a.lat, b.lat)) /\ RGe(RMax(a.lat, b.lat), p.lat)
  /\ RGe(p.lng, RMin(a.lng, b.lng)) /\ RGe(RMax(a.lng, b.lng), p.lng)
  /\ RMul(RSub(p.lat, a.lat), RSub(b.lng, a.lng))
       = RMul(RSub(p.lng, a.lng), RSub(b.lat, a.lat))

\* ----------------------------------------------------------------------- C23
\* C23: interpolation never extrapolates: for every t, the point that the
\* interpolation of the decoded-path navigator (polyline.ts) and the point
\* that the interpolation of the waypoint-list navigator (routes.ts) return
\* lie on the segment between the two end points.
C23_NeverExtrapolates ==
  (Returned("polyline.interpolatePosition") \/ Returned("routes.interpolatePosition"))
    => OnSegment(geoResult[1], geoCall.from, geoCall.to)

\* ----------------------------------------------------------------------- C24
\* segment j (0-based) of the path of the call
SegmentStart(j) == geoCall.polyline[j + 1]
SegmentEnd(j) == geoCall.polyline[j + 2]

\* the squared distance from the query point to the point at fraction g of
\* segment j
DistanceTo(j, g) ==
  haversineDistanceSquared(geoCall.point,
    [lat |-> RAdd(SegmentStart(j).lat,
                  RMul(RSub(SegmentEnd(j).lat, SegmentStart(j).lat), g)),
     lng |-> RAdd(SegmentStart(j).lng,
                  RMul(RSub(SegmentEnd(j).lng, SegmentStart(j).lng), g))])

\* fractions of [0, 1], fine enough to hold every projection of a grid point
\* onto a segment of a path
SampleFractions == {Rat(k, 8) : k \in 0..8}

\* C24: findClosestPointOnPolyline returns none exactly when the path is
\* empty; segment 0, fraction 0 and the distance to the point for a path of
\* one point; otherwise the segment whose clamped projection of the query
\* point is nearest to it, the lowest index among equally near segments,
\* with the fraction of that projection, in [0, 1], and its distance: no
\* point of the path is nearer.
C24_ClosestPointOnPath ==
  Returned("findClosestPointOnPolyline") =>
    LET path == geoCall.polyline
        r == geoResult[1]
    IN  /\ (r = <<>>) <=> (Len(path) = 0)
        /\ Len(path) = 1 =>
             r[1] = [segmentIndex |-> 0, fraction |-> Zero,
                     distance |-> haversineDistanceSquared(geoCall.point, path[1])]
        /\ Len(path) >= 2 =>
             /\ r[1].segmentIndex \in 0..(Len(path) - 2)
             /\ RGe(r[1].fraction, Zero) /\ RGe(One, r[1].fraction)
             /\ r[1].fraction
                  = projectPointOntoSegment(geoCall.point,
                      SegmentStart(r[1].segmentIndex),
                      SegmentEnd(r[1].segmentIndex)).fraction
             /\ r[1].distance = DistanceTo(r[1].segmentIndex, r[1].fraction)
             /\ \A j \in 0..(Len(path) - 2) : \A g \in SampleFractions :
                  RGe(DistanceTo(j, g), r[1].distance)
             /\ \A j \in 0..(r[1].segmentIndex - 1) :
                  RGt(projectPointOntoSegment(geoCall.point, SegmentStart(j),
                                              SegmentEnd(j)).distance,
                      r[1].distance)

\* the query point is equally near to the middles of both segments of a path
\* that turns a corner, and the call returned the middle of the first
C24_Witness ==
  /\ Returned("findClosestPointOnPolyline")
  /\ Len(geoCall.polyline) = 3
  /\ geoResult[1] # <<>>
  /\ geoResult[1][1].segmentIndex = 0
  /\ geoResult[1][1].fraction = Rat(1, 2)
  /\ DistanceTo(1, Rat(1, 2)) = geoResult[1][1].distance
  /\ RGt(geoResult[1][1].distance, Zero)
  /\ \A g \in SampleFractions : RGe(DistanceTo(1, g), geoResult[1][1].distance)

\* ----------------------------------------------------------------------- C25
\* the simulation has left a trace: an interval is set, a location_ping was
\* sent, a proximity check or a workflow step was made, or the position was
\* advanced
SimulationStarted ==
  \/ livePing > 0 \/ liveMove > 0 \/ pingInterval \/ moveInterval
  \/ lastSent = "location_ping"
  \/ ev # NoEvent
  \/ lastAdvance.made

\* C25: the simulation starts only on receipt of connection_ack: the first
\* location_ping, movement tick, proximity check or interval comes in the
\* step that handles a connection_ack on the open socket, after auth was sent
\* on open; no ping, tick or check is made before.
C25_StartsOnConnectionAck ==
  [][ /\ (PingTick \/ MoveTick \/ PauseTimerFires) => SimulationStarted
      /\ (~SimulationStarted /\ SimulationStarted') =>
           /\ socket = "OPEN" /\ connected /\ lastSent = "auth"
           /\ ~authenticated /\ authenticated'
           /\ lastSent' = "location_ping"
           /\ ev'.op = "check" ]_vars

\* after the acknowledgement a ping was sent, the position advanced and a
\* proximity check started a workflow
C25_Witness ==
  /\ authenticated /\ socket = "OPEN"
  /\ lastSent = "location_ping"
  /\ lastAdvance.made
  /\ ev.op = "check" /\ ev.stop # 0
  /\ livePing = 1 /\ liveMove = 1

\* ----------------------------------------------------------------------- C26
\* C26: when every collaborator call eventually returns or throws and the
\* service-time timeout fires, every workflow that starts eventually ends
\* and the lock it took is released.
C26_WorkflowEndsAndReleases ==
  (isCompletingStop \/ workflows # <<>>) ~> (~isCompletingStop /\ workflows = <<>>)

\* a workflow has just ended with the proof submitted, and the lock is clear
C26_Witness ==
  /\ ev.op = "submitPod" /\ ev.outcome = "ok" /\ ev.lockBefore
  /\ ~isCompletingStop /\ workflows = <<>>
  /\ stops[ev.stop].status = "completed"

\* ----------------------------------------------------------------------- C27
\* the step makes a proximity check: a movement tick, or the start of the
\* simulation
CheckStep == MoveTick \/ ConnectionAck

\* a check made with no workflow in flight, at a position where stop i is the
\* nearest eligible stop within the threshold
CheckFinds(i) == CheckStep /\ Configured /\ ~isCompletingStop /\ Nearest' = i

\* a collaborator call reports failure or throws
FailStep == SettleStep /\ ev'.outcome \in {"fail", "throw"}

\* the stops a list may hold
StopNumbers == 1..MaxStops

\* C27: retry is by rescan.  A workflow that fails leaves its stop as it was
\* and the lock clear; every check made afterwards, as any check, with no
\* workflow in flight and the stop the nearest eligible one within the
\* threshold starts a new workflow for it, however many workflows failed
\* before and however recently.  Hence, when the collaborators' calls settle,
\* from some time on succeed, and the agent keeps coming within the threshold
\* of the stop with it the nearest, the stop is eventually completed.
C27_RetryByRescan ==
  /\ [][ /\ FailStep =>
             /\ ~isCompletingStop' /\ workflows' = <<>>
             /\ stops' = stops /\ completedStopIds' = completedStopIds
         /\ \A i \in StopNumbers :
              CheckFinds(i) =>
                /\ isCompletingStop'
                /\ Len(workflows') = 1
                /\ workflows'[1].stop = i /\ workflows'[1].pc = "patchStop"
                /\ ev'.call = "patchStop" /\ ev'.stop = i ]_vars
  /\ \A i \in StopNumbers :
       ([]<><<CheckFinds(i)>>_vars /\ <>[][~FailStep]_vars)
         => <>(i \in StopIndexes /\ stops[i].status = "completed")

\* the workflow that the check right after a failed mark-arrived started for
\* the same stop has marked it arrived and waits out the service time
C27_Witness ==
  \E k \in 1..Len(workflows) :
    /\ workflows[k].retryAfter = "patchStop"
    /\ workflows[k].pc = "serviceTime"
    /\ workflows[k].arrivedOk
    /\ ev.op = "patchStop" /\ ev.outcome = "ok"

\* ----------------------------------------------------------------------- C28
\* C28: on a decoded path of two or more points, after every updatePosition
\* call the reported position is the point at fraction
\* min(segmentProgress, 1) of the segment currentPointIndex that the call
\* left behind; so after the call that wraps to the start of the path the
\* position is the first point.  (Checked for positive speeds.)
C28_PositionMatchesNavigationState ==
  (lastAdvance.made /\ PolylineMode /\ Len(polylinePoints) >= 2
     /\ config.speedMps > 0) =>
    /\ currentPointIndex + 1 < Len(polylinePoints)
    /\ currentLocation.lat = PointAt(currentPointIndex, RMin(segmentProgress, One))

\* ----------------------------------------------------------------------- C29
\* the last updatePosition call was made on a waypoint list of two or more
\* waypoints, not paused, at a positive speed, and reached the next waypoint
ReachedWaypoint ==
  /\ lastAdvance.made /\ ~PolylineMode /\ Len(route) >= 2
  /\ config.speedMps > 0
  /\ ~lastAdvance.paused
  /\ currentWaypointIndex = Successor(lastAdvance.idx)
  /\ currentWaypointIndex # lastAdvance.idx

\* the position is that of waypoint k (0-based)
AtWaypoint(k) ==
  /\ currentLocation.lat = RInt(route[k + 1].lat)
  /\ currentLocation.lng = RInt(route[k + 1].lng)

\* C29: on a waypoint list, the updatePosition call that reaches waypoint k
\* reports the position of waypoint k, and while the simulator is paused at
\* waypoint k the reported position is that of waypoint k.
C29_ReportsReachedWaypoint ==
  /\ ReachedWaypoint => AtWaypoint(currentWaypointIndex)
  /\ (~PolylineMode /\ isPaused) => AtWaypoint(currentWaypointIndex)

\* ----------------------------------------------------------------------- C30
\* metres by which the last updatePosition call overshot the waypoint it
\* reached
Overshoot ==
  RSub(RAdd(RMul(lastAdvance.prog, SegmentLength(lastAdvance.idx)), Travel),
       SegmentLength(lastAdvance.idx))

\* C30: on a waypoint list, when a tick reaches a waypoint that has no pause,
\* the distance by which it overshot the waypoint is carried into the next
\* segment, so that the tick covers speedMps * dt along the route; the rest of
\* the tick's distance is dropped only when a pause is entered.  (Stated for
\* segments of positive length and an overshoot shorter than the next
\* segment.)
C30_OvershootCarriedPastWaypoint ==
  (ReachedWaypoint /\ RGt(SegmentLength(lastAdvance.idx), Zero)) =>
    IF route[currentWaypointIndex + 1].pauseMs > 0
    THEN segmentProgress = Zero
    ELSE RGt(SegmentLength(currentWaypointIndex), Overshoot) =>
           segmentProgress = RDiv(Overshoot, SegmentLength(currentWaypointIndex))

\* ----------------------------------------------------------------------- C31
\* length of segment i (0-based) of the decoded path
PathSegmentLength(i) ==
  haversineDistance(At(polylinePoints, i), At(polylinePoints, i + 1))

\* the step is an updatePosition call on a decoded path of two or more points
\* at a positive speed
PathTick ==
  MoveTick /\ PolylineMode /\ Len(polylinePoints) >= 2 /\ config.speedMps > 0

\* the last updatePosition call wrapped: it started past the first segment
\* and left the navigation state at the start of the path
Wrapped ==
  /\ lastAdvance.made /\ lastAdvance.idx > 0
  /\ currentPointIndex = 0 /\ segmentProgress = Zero

AtLoopSeam ==
  lastAdvance.made /\ currentPointIndex = 0 /\ segmentProgress = Zero

\* the segments a modelled path may have
SegmentNumbers == 0..3

\* C32: with a positive speed and a decoded path of two or more points,
\* while the movement interval stays set the path is traversed as a loop:
\* again and again a call reaches the end and wraps to currentPointIndex 0,
\* and the navigator stays on no segment of a path of several segments
\* forever.
C32_TraversesAsLoop ==
  (PolylineMode /\ Len(polylinePoints) >= 2 /\ config.speedMps > 0) =>
    (<>[](liveMove > 0) =>
       /\ []<>AtLoopSeam
       /\ \A i \in SegmentNumbers :
            Len(polylinePoints) >= 3 => []<>(currentPointIndex # i))

\* a call that started on the third segment of a path of four points has
\* wrapped
C32_Witness ==
  /\ PolylineMode /\ Len(polylinePoints) = 4 /\ config.speedMps > 0
  /\ AtLoopSeam /\ lastAdvance.idx = 2
  /\ liveMove > 0

\* ----------------------------------------------------------------------- C33
\* a rational with a denominator: neither a division by zero nor its result
Finite(x) == x.d > 0

\* the segment being traversed has no length
OnEmptySegment ==
  IF PolylineMode
  THEN /\ currentPointIndex + 1 < Len(polylinePoints)
       /\ PathSegmentLength(currentPointIndex) = Zero
  ELSE /\ Len(route) >= 2 /\ ~isPaused
       /\ SegmentLength(currentWaypointIndex) = Zero

\* C33: a segment without length neither stalls nor faults the navigator.
\* An updatePosition call that starts on one adds 1 to segmentProgress and
\* leaves the segment in the same call (for the next segment, or for the
\* start of the path when it was the last), and segmentProgress and the
\* position stay finite numbers in every state, also after a call that
\* crossed into such a segment.
C33_EmptySegmentNeverStalls ==
  [][ /\ Finite(segmentProgress') /\ Finite(currentLocation'.lat)
      /\ Finite(currentLocation'.lng)
      /\ (MoveTick /\ OnEmptySegment) =>
           IF PolylineMode
           THEN \/ currentPointIndex' > currentPointIndex
                \/ (currentPointIndex' = 0 /\ segmentProgress' = Zero)
           ELSE /\ currentWaypointIndex' = Successor(currentWaypointIndex)
                /\ segmentProgress' = Zero ]_vars

\* a call that overshot the second point by 50 m has crossed into the
\* segment without length that follows it, and stands on it
C33_Witness ==
  /\ PolylineMode /\ OnEmptySegment /\ currentPointIndex = 1
  /\ lastAdvance.made /\ lastAdvance.idx = 0
  /\ RGt(segmentProgress, Zero) /\ Finite(segmentProgress)

\* ----------------------------------------------------------------------- C34
\* the navigation state and the reported position
Navigator ==
  <<currentPointIndex, currentWaypointIndex, segmentProgress, isPaused,
    currentLocation>>

\* a completeStop call is suspended in its service-time wait
InServiceTime == \E k \in 1..Len(workflows) : workflows[k].pc = "serviceTime"

\* C34: the completion workflow never modifies the navigation state. From
\* the proximity check that starts it to its end, no step of completeStop
\* changes currentPointIndex, currentWaypointIndex, segmentProgress, isPaused
\* or the position, and a movement tick taken while a workflow is in flight
\* (the service-time wait included) moves the agent exactly as updatePosition
\* moves it from the same navigation state with no workflow.
C34_WorkflowLeavesNavigationAlone ==
  [][ /\ SettleStep => UNCHANGED <<Navigator, route, polylinePoints>>
      /\ (ConnectionAck /\ ev'.call = "patchStop") => UNCHANGED Navigator
      /\ (MoveTick /\ (isCompletingStop \/ isCompletingStop')) =>
           LET r == updatePosition(deltaSeconds)
           IN  /\ currentPointIndex' = r.pointIndex
               /\ currentWaypointIndex' = r.waypointIndex
               /\ segmentProgress' = r.prog
               /\ isPaused' = r.paused
               /\ currentLocation' = [lat |-> r.lat, lng |-> r.lng, speed |-> r.speed]
    ]_vars

\* a tick taken during the service-time wait has moved the agent, and the
\* wait has not ended
C34_Witness ==
  /\ InServiceTime /\ isCompletingStop
  /\ ev.op = "check" /\ ev.lockBefore
  /\ lastAdvance.made /\ lastAdvance.lat # currentLocation.lat
  /\ liveMove > 0

\* ----------------------------------------------------------------------- C35
\* p lies between the points a and b of the meridian
Between(p, a, b) == RGe(p, RMin(a, b)) /\ RGe(RMax(a, b), p)

\* C35: in polyline mode the reported position is on the path in every
\* reachable state: on the segment from polylinePoints[i] to
\* polylinePoints[i+1] for some i, or, when the path is the single fallback
\* point, that point.  This holds for every speed, negative ones included.
C35_PositionStaysOnPath ==
  PolylineMode =>
    /\ Finite(currentLocation.lat)
    /\ IF Len(polylinePoints) < 2
       THEN currentLocation.lat = At(polylinePoints, 0)
       ELSE \E i \in 0..(Len(polylinePoints) - 2) :
              Between(currentLocation.lat, At(polylinePoints, i),
                      At(polylinePoints, i + 1))

\* a call at a negative speed has left the progress below 0 and reports the
\* start of the segment
C35_Witness ==
  /\ PolylineMode /\ Len(polylinePoints) >= 2 /\ config.speedMps < 0
  /\ lastAdvance.made /\ RLt(lastAdvance.prog, Zero)
  /\ RLt(segmentProgress, lastAdvance.prog)
  /\ currentLocation.lat = At(polylinePoints, currentPointIndex)

\* ----------------------------------------------------------------------- C36
\* C36: at most one ping interval and one movement interval are set at any
\* time, whatever messages arrive (connection_ack more than once included),
\* and once stopSimulation has run no interval is left to trigger a ping, a
\* position update or a proximity check: an interval is set only while its
\* handle is stored.
C36_OneIntervalEach ==
  /\ livePing <= 1 /\ liveMove <= 1
  /\ ~pingInterval => livePing = 0
  /\ ~moveInterval => liveMove = 0

\* ----------------------------------------------------------------------- C37
\* the stop has no id, or its latitude or its longitude is 0
Falsy(stop) == stop.id = "" \/ stop.latitude = 0 \/ stop.longitude = 0

\* C37: a stop without id, or with latitude 0 or longitude 0, is skipped by
\* every proximity scan and never completed, whatever its status, its type
\* and its distance to the agent: no scan selects it, no completeStop call
\* is made for it, its status stays the configured one and its id never
\* enters completedStopIds.
C37_FalsyStopNeverCompleted ==
  \A i \in StopIndexes :
    Falsy(stops[i]) =>
      /\ ~(ev.op = "check" /\ ev.selected = i)
      /\ \A k \in 1..Len(workflows) : workflows[k].stop # i
      /\ stops[i].status = config.stops[i].status
      /\ stops[i].id \notin completedStopIds

\* a scan has run with the agent standing on such a stop, which is neither
\* a depot nor completed
C37_Witness ==
  \E i \in StopIndexes :
    /\ Falsy(stops[i]) /\ DistFrom(currentLocation.lat, i) = Zero
    /\ ~IsDepot(stops[i]) /\ stops[i].status # "completed"
    /\ ev.op = "check" /\ ev.scanned /\ ~ev.lockBefore

\* ----------------------------------------------------------------------- C38
\* the step in which the authentication timeout fires
TimeoutFires == authTimer /\ ~authTimer'

\* a connection_ack was received: startSimulation has sent a location ping
\* (before it only the auth message is sent)
Acknowledged == lastSent = "location_ping"

\* everything of the simulator but the pending timeout itself
BesidesAuthTimer ==
  <<config, navVars, stopVars, socket, ws, connected, authenticated, timerVars,
    lastSent>>

\* C38: the authentication timeout calls disconnect() only if no
\* connection_ack was received; once a connection_ack was received, its
\* firing changes nothing of the connection or the simulation.
C38_TimeoutOnlyWithoutAck ==
  [][ (TimeoutFires /\ Acknowledged) => UNCHANGED BesidesAuthTimer ]_vars

====
